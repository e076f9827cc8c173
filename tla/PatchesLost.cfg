CONSTANTS
    p1 = p1
    p2 = p2
    p3 = p3
    notes = notes
    dir = dir
    tgz = tgz
    Patch = {p1, p2, p3}
    Other = {notes}
    Folder = {dir}
    Archive = {tgz}
    Root = Root
    Nowhere = Nowhere
    Layouts <- MCLayouts
    Bad <- MCBad
SPECIFICATION Spec
INVARIANTS AppliesWhatItFinds

SPECIFICATION DialogsSpec
CONSTANTS
  Rows = {7, 14, 16, 18}
  NoItem = NoItem
  Entries = {1, 2, 3, 4, 5}
  MenuLists <- MenuListsHere
  ValueLists <- ValueListsHere
  Letter <- LetterHere
  Values = {1, 2, 3, 4}
  Initial <- InitialHere
  list_height = 2
  box_width = 4
  MAX_LEN = 6
  YesNoHeight = 6
  Texts <- TextsHere
  MaxHscroll = 2
  Letters = {"a", "b", "s", "t", "u"}
  Menus <- MenusHere
  Keys = {"a", "b"}
  MaxPattern = 2
  result_len = 5
  Openings <- OpeningsHere
  prompt_width = 2
  LINES = 20
  TextLines = {10, 30}
CHECK_DEADLOCK FALSE
INVARIANTS MenuShowsItems ListShowsItems FieldShowsText TextStaysInSequence
INVARIANTS StaysOnMatch StuckAtAnEnd EditsText ShowsEveryLine

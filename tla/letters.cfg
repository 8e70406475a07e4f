\* Where no animation runs and no hand comes, an animation's display rests.
SPECIFICATION LettersSpec
CONSTANTS
  Columns = 5
  Rows = 4
  Words <- MCWords
  None = "none"
  Fonts <- AllFonts
  Orientation <- OrientationOf
  Height <- HeightOf
  Width <- WidthOf
  Glyphs <- GlyphsOf
  Space = " "
  Overlays <- AllOverlays
  NoOverlay = noOverlay
  Size = 4
  Nul = "nul"
  Chars <- AllChars
  Texts <- SomeTexts
  Prefix = 2
  LineLength = 5
  Faces <- SomeFaces
  FirstFont = "tall"
  MaxChanges = 3
  Times <- MCTimes
  WordsAt <- MCWordsAt
  TableSize = 5
  Full = 3
  Byte = 32
  SnakeLength = 3
  SmallBorder <- MCSmallBorder
  ExplodeSteps = 2
  FlickerCount = 2
  RevealStep = 1
  TrailSteps = 2
  WordUnderFlag = FALSE
  Order <- MCOrder
  FavouriteSets <- MCFavouriteSets
  Selectable = {"None", "Snake", "Flicker"}
  StartsFrom = {"face", "dark"}
  MaxEvents = 2
INVARIANTS
  DisplayIsAWindow
  UndisturbedRunIsTheText
  RestsOnTheNewestTime
PROPERTIES
  RunsAreWhole
  RunsEnd
CHECK_DEADLOCK FALSE

SPECIFICATION Spec
CONSTANTS
  j1 = j1
  j2 = j2
  j3 = j3
  j4 = j4
  r1 = r1
  Rivals = {r1}
  me = me
  other = other
  mine = mine
  theirs = theirs
  Jobs <- OverlapJobs
  Newest <- OverlapNewest
  Category <- MCCategory
  Kind <- MCKind
  Place <- MCPlace
  Title <- MCTitle
  Skills <- MCSkills
  Slug <- MCSlug
  CategoryWords <- MCCategoryWords
  Phrases <- MCPhrases
  Names <- MCNames
  Like <- MCLike
  CategoryLimit = 2
  TopK = 1
  Applications = {}
  Applicant <- MCApplicant
  ListAbove = 1
  DocLimit = 1
  Fixed <- MCFixed
  Glossary <- MCGlossary
  Seeker = me
  SeekerSkills = {"agent"}
  SeekerPlace = "village"
  Pays <- MCPays
  Opening <- MCOpening
  FirstStatus <- MCFirstStatus
  Messages <- OverlapMessages
  Calls = {}
  Claims <- OverlapClaims
  MaxSteps = 1
  MaxLoops = 1
  CardLimit = 1
  MaxTurns = 3
  MaxEdits = 0
  MaxFaults = 1
  MaxEvents = 4
INVARIANTS
  AppliesToShown
  SpeaksTheirLanguage
CHECK_DEADLOCK FALSE

SPECIFICATION Spec
CONSTANTS
  j1 = j1
  j2 = j2
  j3 = j3
  j4 = j4
  r1 = r1
  Rivals = {}
  me = me
  other = other
  mine = mine
  theirs = theirs
  Jobs <- MCJobs
  Newest <- MCNewest
  Category <- MCCategory
  Kind <- MCKind
  Place <- MCPlace
  Title <- MCTitle
  Skills <- MCSkills
  Slug <- MCSlug
  CategoryWords <- MCCategoryWords
  Phrases <- MCPhrases
  Names <- MCNames
  Like <- MCLike
  CategoryLimit = 2
  TopK = 2
  Applications <- MCApplications
  Applicant <- MCApplicant
  ListAbove = 1
  DocLimit = 1
  Fixed <- MCFixed
  Glossary <- MCGlossary
  Seeker = me
  SeekerSkills = {"agent"}
  SeekerPlace = "village"
  Pays <- MCPays
  Opening <- MCOpening
  FirstStatus <- MCFirstStatus
  Messages <- MCMessages
  Calls <- MCCalls
  Claims <- MCClaims
  MaxSteps = 2
  MaxLoops = 2
  CardLimit = 1
  MaxTurns = 2
  MaxEdits = 1
  MaxFaults = 1
  MaxEvents = 4
INVARIANTS
  TypeOK
  ListingSound
  
CHECK_DEADLOCK FALSE

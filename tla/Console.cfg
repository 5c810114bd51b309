CONSTANTS
  Pages <- AllPages
  MaxAsks <- Asks
  MaxPosts <- Posts
  MaxForms <- Forms
SPECIFICATION Spec
INVARIANTS ListIsCurrent  KeyIsShown OncePerForm
CHECK_DEADLOCK FALSE

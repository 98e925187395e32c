CONSTANTS
  pr = pr
  review = review
  echo = echo
  mention = mention
  status = status
  jekyll = jekyll
  other = other
  ann = ann
  ben = ben
  cid = cid
  dan = dan
  bot = bot
  Handlers = {review, echo, status}
  Event <- MCEvent
  Repos = {jekyll, other}
  Enabled = {jekyll, other}
  Logins = {ann, ben, cid, dan, bot}
  Bot = bot
  Teams <- MCTeams
  Members <- MCMembers
  Nobody = Nobody
  NoRepo = NoRepo
  MaxNum = 2
  ApiErrors = TRUE
SPECIFICATION Spec
INVARIANTS
  IInv
  CallsInTurnAreOwn
  AskedAreCaptains
CHECK_DEADLOCK FALSE

CONSTANTS
  pr = pr
  review = review
  echo = echo
  mention = mention
  status = status
  jekyll = jekyll
  other = other
  ann = ann
  ben = ben
  cid = cid
  dan = dan
  bot = bot
  Handlers = {pr, mention}
  Event <- MCEvent
  Repos = {jekyll, other}
  Enabled = {jekyll, other}
  Logins = {ann, ben, cid, dan, bot}
  Bot = bot
  Teams <- MCTeams
  Members <- MCMembers
  Nobody = Nobody
  NoRepo = NoRepo
  MaxNum = 2
  ApiErrors = FALSE
SPECIFICATION Spec
INVARIANTS
  CallsAreOwn
CHECK_DEADLOCK FALSE

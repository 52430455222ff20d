SPECIFICATION Spec
CONSTANTS
  d1 = d1  d2 = d2  gmailKey = gmailKey
  Drafts = {d1, d2}
  Contents = {x1}
  Tokens = {t1, t2}
  Calls = {c1, c2}
  ChannelOf <- TwoChannels
  RecipientOf <- SamePerson
  KeyOf <- OneKey
  NoKey = NoKey
  ContactLimit = 1  ChannelLimit = 1  DailyLimit = 1
  MaxRevision = 4
  NoDraft = NoDraft  NoContent = NoContent  NoToken = NoToken
SYMMETRY OutboundSymmetry
INVARIANTS AtMostOneSend CancelledIsNotSent GmailFailureIsReal
PROPERTIES AnsweredEditIsRespected OutcomeIsFinal

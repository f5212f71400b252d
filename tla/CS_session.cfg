CONSTANTS
    Users = {u1, u2}
    Slugs = {a, b}
    Plain = {}
    Chat = {chat}
    Cleaned = {chat}
    NoUser = NoUser
    NoSlug = NoSlug
    Late = Late
    MaxCalls = 2
SPECIFICATION FairSpec
INVARIANTS TypeOK TokensAgree NoContextSignedOut 
PROPERTIES StaysForgotten LoadingEnds

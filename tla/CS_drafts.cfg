CONSTANTS
    Users = {u1, u2}
    Slugs = {a, b}
    Plain = {draft}
    Chat = {chat}
    Cleaned = {draft, chat}
    NoUser = NoUser
    NoSlug = NoSlug
    Late = Late
    MaxCalls = 2
SPECIFICATION FairSpec
INVARIANT StoresScoped

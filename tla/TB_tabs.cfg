CONSTANTS
    Slugs = {a, b}
    Pages = {issues, inbox}
    Issues = issues
    TabIds = {t1, t2}
    NoSlug = NoSlug
    NoTab = NoTab
SPECIFICATION FairSpec
INVARIANTS TypeOK TabInv
PROPERTIES GroupsKept PathsFollow ReloadRestores Lands

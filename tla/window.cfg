SPECIFICATION ComposerFairSpec
CONSTANTS
    home = home
    work = work
    homeInbox = homeInbox
    homeOld = homeOld
    workInbox = workInbox
    m1 = m1
    m2 = m2
    Accounts = {home, work}
    Folders = {homeInbox, homeOld, workInbox}
    Owner <- OwnerOfFolder
    Inboxes = {homeInbox, workInbox}
    None = None
    Messages = {m1, m2}
    In <- TwoInFolders
    Matching = {m1}
    Settings <- MCSettings
INVARIANTS NothingSentTwice AnswersFromOwnAccount WindowSettles SyncsOwnFolder FlagsAsWished
PROPERTIES NewMailShows
CHECK_DEADLOCK FALSE

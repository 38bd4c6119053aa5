SPECIFICATION FairIdleSpec
CONSTANTS
    MaxMail = 2
    Mailboxes = {inbox, archive}
    Inbox = inbox
    Nothing = nothing
    Habits = {"timer", "chat", "report", "change"}
    MaxChat = 1
    MaxDrops = 6
INVARIANTS LinesMatch
PROPERTIES MailIsStored PushCatchesUp StopsWhenTold
CHECK_DEADLOCK FALSE

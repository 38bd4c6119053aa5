SPECIFICATION FairSpec
CONSTANTS
    Scripts <- MCScripts
    Characters <- MCCharacters
    Mailboxes <- MCMailboxes
    Texts <- MCTexts
    MaxFetch = 2
    Habits = {"refuse", "close", "chatter", "late", "inline", "literal"}
INVARIANTS OutcomeIsTheAnswer FetchIsExact FoldersAreMailboxes
PROPERTIES SessionEnds
CHECK_DEADLOCK FALSE

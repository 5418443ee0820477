CONSTANTS
    MailAgents = {a1, a2}
    MaxMails = 2
    MaxMailRestarts = 1
SPECIFICATION MailSpec
PROPERTY MailArrives
CHECK_DEADLOCK FALSE

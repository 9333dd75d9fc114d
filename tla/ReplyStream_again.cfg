SPECIFICATION ReplySpec
CONSTANTS
    MaxMessages = 2
    MaxTokens = 2
    MaxLinks = 1
    QueueSize = 3
\* The user need not send another message.
CHECK_DEADLOCK FALSE
INVARIANT
    EveryReplySettles

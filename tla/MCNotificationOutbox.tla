------------------------ MODULE MCNotificationOutbox ------------------------
EXTENDS NotificationOutbox, TLC

CONSTANTS shipped, inapp, email

TwoChannels == inapp :> shipped @@ email :> shipped
=============================================================================

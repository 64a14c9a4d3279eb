--------------------------- MODULE MCNotification ---------------------------
EXTENDS Notification
MCLoops == 1..2
MCCallers == Events \cup MCLoops
MCBacklog == <<[id |-> 21, retries |-> 0], [id |-> 11, retries |-> MaxRetries]>>
MCMaxFaults == [link |-> 1, tag |-> 1]
=============================================================================

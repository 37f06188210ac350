---------------------------- MODULE MCFollowupQueue ----------------------------
EXTENDS FollowupQueue

CONSTANTS m1, m2, m3, m4, chat, topic

From(p, t) == [place |-> p, thread |-> t]

\* A message of a chat, one of a topic of it, one from the internal channel, and
\* one without routing.  Only the second carries a message id.
MCRoute == [m \in Messages |->
    CASE m = m1 -> From(chat, NoThread)
      [] m = m2 -> From(chat, topic)
      [] m = m3 -> From(Unroutable, NoThread)
      [] m = m4 -> From(NoPlace, NoThread)]

MCSettings == [mode : {"collect", "followup"}, cap : {1, 2},
               drop : {"old", "new", "summarize"}]
================================================================================

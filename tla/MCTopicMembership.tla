--------------------------- MODULE MCTopicMembership ---------------------------
(* Three accounts, room for two: joins compete for the last place, members  *)
(* leave, are kicked or banned, and rejoin within four key sequences.       *)
EXTENDS TopicMembership

=============================================================================

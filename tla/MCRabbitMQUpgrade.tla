------------------------- MODULE MCRabbitMQUpgrade -------------------------
(***************************************************************************)
(* Versions for the runs of RabbitMQUpgrade.                               *)
(***************************************************************************)
EXTENDS RabbitMQUpgrade

V3_9 == <<3, 9>>
V4_2 == <<4, 2>>

MajorTargets == {<<3, 9>>, <<4, 2>>}
PatchTargets == {<<4, 2>>, <<4, 2, 1>>}
Minor39 == {<<3, 9>>}

=============================================================================

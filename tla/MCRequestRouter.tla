---------------------------- MODULE MCRequestRouter ----------------------------
(* A small instance of RequestRouter for TLC. *)
EXTENDS RequestRouter

CONSTANTS b1, b2, b3, m1, m2

\* An ordinary model on three backends, and a wildcard name that resolves to two
\* models, both of them on b1, as match flattens them: model by model.
MCLists == [plain |-> << <<b1, m1>>, <<b2, m1>>, <<b3, m1>> >>,
            wild |-> << <<b1, m1>>, <<b2, m1>>, <<b1, m2>> >>]
=============================================================================

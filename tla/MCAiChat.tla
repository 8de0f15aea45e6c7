------------------------------ MODULE MCAiChat -------------------------------
(* AiChat for TLC.                                                         *)
EXTENDS AiChat, TLC

(* Two calls of a provider that always gives the same id.                  *)
OneRawId == {<<>>}
AllKinds == {"oauth", "stdio", "remote"}

=============================================================================

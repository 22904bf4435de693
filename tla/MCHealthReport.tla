--------------------------- MODULE MCHealthReport ---------------------------
(* Two services of up to two servers, or one and many.                     *)
EXTENDS HealthReport

CONSTANTS shop, blog

TwoServices == {shop, blog}
Checked == {"maint"}
WithUnchecked == {"unknown"}
UpOrDown == {}
FewServers == 0..2
OneByOne == {1}

\* Many servers, of which all but one change their status at once.
OneOrMany == {1, 102}
OneOrNearlyAll == {1, 101}
=============================================================================

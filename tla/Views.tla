-------------------------------- MODULE Views --------------------------------
(***************************************************************************)
(* What a reader has on the screen: the Fabric views of Dashboard or the   *)
(* Iroha lists of IrohaLists.  The two clients share no state, so that the *)
(* side that is not shown stays as it started.                             *)
(***************************************************************************)
EXTENDS IrohaLists

CONSTANTS Networks, Network, Orgs, Hashes, Blocks, Peers, Chaincodes, Loads, Now, MaxBlock,
          MaxTxs, MaxLate, MaxFailures, NotFound, ServerError

VARIABLES screen, db, server, phase, token, request, store, timer, dbError, failures

fabricVars == <<db, server, phase, token, request, store, timer, dbError, failures>>

viewVars == <<screen, fabricVars, vars>>

Fabric == INSTANCE Dashboard

ASSUME ViewsAssumption == Fabric!DashboardAssumption

ViewsInit ==
  /\ Fabric!Init
  /\ Init
  /\ \/ screen = "fabric" /\ list = "block"
     \/ screen = "iroha" /\ phase = "closed"

ViewsNext ==
  \/ screen = "fabric" /\ Fabric!Next /\ UNCHANGED <<screen, vars>>
  \/ screen = "iroha" /\ Next /\ UNCHANGED <<screen, fabricVars>>

ViewsSpec == ViewsInit /\ [][ViewsNext]_viewVars /\ Fabric!Fairness

-----------------------------------------------------------------------------
(* The properties of the two sides.                                         *)

\* The variables of either side have their types.
ViewsTypeOK == Fabric!TypeOK /\ TypeOK

\* Counts, lists, charts and lookups that different statements answer about the same blocks
\* agree, on either side.  On the Iroha side they read the tables only, which do not depend
\* on what the reader does: the states before its first turn show them all.
ViewsAgree == Fabric!ViewsAgree /\ (turns = 0 => IrohaViewsAgree)

\* Logging in ends at the form, the views or the error page (Dashboard).
LandingSettles == Fabric!LandingSettles
=============================================================================

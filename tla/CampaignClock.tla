--------------------------- MODULE CampaignClock ---------------------------
(***************************************************************************)
(* The clocks of a campaign pass (run_campaign, src/harness/campaign.py).  *)
(*                                                                         *)
(* A pass runs one cell after the other, a cell being one scenario on one  *)
(* freshly made arm.  The campaign reads the wall clock once per cell,     *)
(* mints the cell's artifacts at that instant, refuses to score the cell   *)
(* if they or a credential do not cover it, and hands the instant down: it *)
(* is the arm's and the oracle's only `now`.  Two readers do not use it:   *)
(* an OAuth arm's check of its subject token when it is provisioned, and   *)
(* the authorization server at the exchange.  The access token is minted   *)
(* once, at the server's start-up, which is instant 0 here.                *)
(*                                                                         *)
(* The cells are benign controls whose every check but those of time       *)
(* passes, with a reference monitor attached and a server that answers: an *)
(* attack's reference decision is a denial whatever the clock says.  began *)
(* and ended in a verdict are history.                                     *)
(***************************************************************************)
EXTENDS Freshness, Sequences

CONSTANTS
  Cells,             \* the cells of the pass, in order
  Pins,              \* the values `artifact_instant` may be called with
  TokenExpiry,       \* when the start-up access token expires
  CertExpiry,        \* when the server's TLS certificate does
  DefaultLifetime,   \* of a token the server issues
  ActorLifetime,     \* of the actor assertion an arm signs for the exchange
  ArtifactLead,      \* an artifact's nbf is this far ahead of its iat ...
  ArtifactLifetime,  \* ... and its exp this far behind it
  MaxTime            \* bound: the wall clock

None == -1

(* The ladder: plain is B0 and B1, with no access token; bearer is B-cap;  *)
(* capability is B3 and B3+; forwards is the OAuth arm with no exchange.   *)
Kinds == {"plain", "bearer", "capability", "forwards", "exchanges", "dpop"}
OAuth == {"forwards", "exchanges", "dpop"}
AsksServer == {"exchanges", "dpop"}
Monitored == OAuth \cup {"capability"}

CellSpec == [kind : Kinds, artifacts : BOOLEAN, applicable : BOOLEAN]

ASSUME CampaignAssumption ==
  /\ Cells \in Seq(CellSpec)
  /\ Pins \subseteq Nat \cup {None}
  /\ {Delta, TokenExpiry, CertExpiry, DefaultLifetime, ActorLifetime,
      ArtifactLifetime} \subseteq Nat \ {0}
  /\ ArtifactLead \in Nat /\ MaxTime \in Nat
  /\ Delta < ArtifactLifetime

VARIABLES
  clock,       \* the wall clock, which the server reads too
  pinned,      \* artifact_instant
  place,       \* the cell the loop is at
  phase,       \* where that cell is
  began,       \* history: the wall clock when the cell was reached
  instant,     \* cell_instant: `now` for everything handed down
  iat,         \* the instant its artifacts were minted at
  held,        \* the expiry of the access token to be presented, or None
  cells,       \* CampaignResult.cells
  unscorable   \* CampaignResult.unscorable

cellVars  == <<began, instant, iat, held>>
lists     == <<cells, unscorable>>
clockVars == <<clock, pinned, place, phase, cellVars, lists>>

Places == 1 .. Len(Cells)

ScoredCell == [place : Places, began : Nat, ended : Nat, admitted : BOOLEAN, reference : BOOLEAN]

ClockTypeOK ==
  /\ clock \in Nat /\ pinned \in Pins
  /\ place \in 1 .. Len(Cells) + 1
  /\ phase \in {"next", "minted", "judged", "provisioned", "delegated", "finished", "aborted"}
  /\ phase \notin {"next", "finished"} => place \in Places
  /\ began \in Nat /\ instant \in Nat /\ iat \in Nat
  /\ held \in Nat \cup {None}
  /\ cells \in Seq(ScoredCell)
  /\ unscorable \in Seq(Places)

Cell == Cells[place]

ClockInit ==
  /\ clock = 0 /\ pinned \in Pins
  /\ place = 1 /\ phase = "next"
  /\ began = 0 /\ instant = 0 /\ iat = 0 /\ held = None
  /\ cells = <<>> /\ unscorable = <<>>

-----------------------------------------------------------------------------
MintedAt(now) == IF pinned = None THEN now ELSE pinned

(* What the setup of an arm of this kind holds that has a window. *)
CredentialExpiries(kind) ==
  CASE kind = "plain" -> {}
    [] kind \in {"bearer", "capability"} -> {TokenExpiry}
    [] OTHER -> {TokenExpiry, CertExpiry}

(* Seeded fault: a credential still covers the instant it expires at. *)
ClockRefusalLate(cell) ==
  \/ \E exp \in CredentialExpiries(cell.kind) : instant > exp
  \/ cell.artifacts /\ ~IsFresh(instant, iat)

(* The guard: a credential that does not cover the instant the cell is     *)
(* judged at, or an artifact more than Delta away from it.                 *)
ClockRefusal(cell) ==
  \/ \E exp \in CredentialExpiries(cell.kind) : instant >= exp
  \/ cell.artifacts /\ ~IsFresh(instant, iat)

(* The server at its own instant: the subject token, the actor assertion   *)
(* the arm signed with the cell's instant, and that of its DPoP proof.     *)
ServerRefuses(kind) ==
  \/ clock >= TokenExpiry
  \/ clock >= instant + ActorLifetime
  \/ kind = "dpop" /\ ~IsFresh(clock, instant)

Lesser(a, b) == IF a <= b THEN a ELSE b

TokenCovers == held # None /\ instant < held

(* The monitor's window on an artifact is closed at exp, the oracle's is   *)
(* open there, and only the monitor asks for freshness.                    *)
MonitorAccepts ==
  /\ iat - ArtifactLead <= instant /\ instant <= iat + ArtifactLifetime
  /\ IsFresh(instant, iat)
ReferenceAccepts ==
  iat - ArtifactLead <= instant /\ instant < iat + ArtifactLifetime

-----------------------------------------------------------------------------
(* A cell sealed as not applicable is noted and not run. *)
SkipCell ==
  /\ phase = "next" /\ place \in Places /\ ~Cell.applicable
  /\ unscorable' = Append(unscorable, place)
  /\ place' = place + 1
  /\ UNCHANGED <<clock, pinned, phase, cellVars, cells>>

BeginCell ==
  /\ phase = "next" /\ place \in Places /\ Cell.applicable
  /\ began' = clock /\ instant' = clock
  /\ iat' = MintedAt(clock)
  /\ held' = None
  /\ phase' = "minted"
  /\ UNCHANGED <<clock, pinned, place, lists>>

(* Seeded fault: a refused cell is noted and run all the same. *)
JudgeFallsThrough ==
  /\ phase = "minted"
  /\ phase' = "judged"
  /\ unscorable' = IF ClockRefusal(Cell) THEN Append(unscorable, place) ELSE unscorable
  /\ UNCHANGED <<clock, pinned, place, cellVars, cells>>

Judge ==
  /\ phase = "minted"
  /\ IF ClockRefusal(Cell)
     THEN /\ unscorable' = Append(unscorable, place)
          /\ place' = place + 1 /\ phase' = "next"
     ELSE /\ phase' = "judged"
          /\ UNCHANGED <<place, unscorable>>
  /\ UNCHANGED <<clock, pinned, cellVars, cells>>

(* An OAuth arm verifies its subject token at the wall clock; what it      *)
(* raises is no RunnerError, so nothing in the pass catches it.            *)
Provision ==
  /\ phase = "judged"
  /\ IF Cell.kind \in OAuth /\ clock >= TokenExpiry
     THEN /\ phase' = "aborted"
          /\ UNCHANGED held
     ELSE /\ phase' = "provisioned"
          /\ held' = IF Cell.kind = "plain" THEN None ELSE TokenExpiry
  /\ UNCHANGED <<clock, pinned, place, began, instant, iat, lists>>

(* The hop.  A refused exchange leaves the delegate with nothing; a failed *)
(* TLS handshake raises through the pass.                                  *)
Delegate ==
  /\ phase = "provisioned"
  /\ \/ /\ Cell.kind \in AsksServer /\ clock >= CertExpiry
        /\ phase' = "aborted" /\ UNCHANGED held
     \/ /\ Cell.kind \in AsksServer /\ clock < CertExpiry
        /\ phase' = "delegated"
        /\ held' = IF ServerRefuses(Cell.kind) THEN None
                   ELSE Lesser(clock + DefaultLifetime, TokenExpiry)
     \/ /\ Cell.kind \notin AsksServer
        /\ phase' = "delegated" /\ UNCHANGED held
  /\ UNCHANGED <<clock, pinned, place, began, instant, iat, lists>>

(* present, decide and score_cell, all at the cell's instant. *)
DecideCell ==
  /\ phase = "delegated"
  /\ cells' = Append(cells,
       [place |-> place, began |-> began, ended |-> clock,
        admitted |-> /\ Cell.kind # "plain" => TokenCovers
                     /\ Cell.artifacts /\ Cell.kind \in Monitored => MonitorAccepts,
        reference |-> Cell.artifacts => ReferenceAccepts])
  /\ place' = place + 1 /\ phase' = "next"
  /\ UNCHANGED <<clock, pinned, cellVars, unscorable>>

(* A RunnerError from the run. *)
CellFails ==
  /\ phase \in {"provisioned", "delegated"}
  /\ unscorable' = Append(unscorable, place)
  /\ place' = place + 1 /\ phase' = "next"
  /\ UNCHANGED <<clock, pinned, cellVars, cells>>

FinishPass ==
  /\ phase = "next" /\ place = Len(Cells) + 1
  /\ phase' = "finished"
  /\ UNCHANGED <<clock, pinned, place, cellVars, lists>>

Tick ==
  /\ clock < MaxTime
  /\ clock' = clock + 1
  /\ UNCHANGED <<pinned, place, phase, cellVars, lists>>

ClockNext ==
  \/ SkipCell \/ BeginCell \/ Judge \/ Provision \/ Delegate \/ DecideCell \/ CellFails \/ FinishPass
  \/ Tick

ClockSpec == ClockInit /\ [][ClockNext]_clockVars

-----------------------------------------------------------------------------
(* Properties.                                                             *)

BlockedFalsely(v) == v.reference /\ ~v.admitted

(* Something the server looks at was good at one instant and not at another. *)
Lapsed(kind, from, to) ==
  \/ from < TokenExpiry /\ TokenExpiry <= to
  \/ from + ActorLifetime <= to
  \/ kind = "dpop" /\ from + Delta < to

(* The two defects the campaign once had -- artifacts minted at another    *)
(* instant than the cell is judged at, and a start-up token that expired   *)
(* before the cell -- are gone: a benign control is scored as blocked only *)
(* if its arm asks the server, and something the server looks at lapsed    *)
(* between the cell's beginning and its end (clock_refusal, run_campaign). *)
FalseBlocksLapseWithinTheCell ==
  \A i \in DOMAIN cells :
    BlockedFalsely(cells[i]) =>
      /\ Cells[cells[i].place].kind \in AsksServer
      /\ Lapsed(Cells[cells[i].place].kind, cells[i].began, cells[i].ended)

(* "UNSCORABLE, never scored": every cell the loop has passed is in        *)
(* exactly one of the two lists, once (run_campaign's `continue`s).        *)
EveryCellAccountedOnce ==
  /\ Len(cells) + Len(unscorable) = place - 1
  /\ \A p \in 1 .. place - 1 :
       (\E i \in DOMAIN cells : cells[i].place = p)
         <=> ~\E i \in DOMAIN unscorable : unscorable[i] = p

=============================================================================

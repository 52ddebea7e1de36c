------------------------------- MODULE Universe -------------------------------
(***************************************************************************)
(* The F&O universe: who may be traded in futures and options.             *)
(*                                                                         *)
(* scripts/load_fno_universe.py writes it, one run at a time.  A worker of *)
(* the API (src/api/instruments.py) serves the snapshot it holds in        *)
(* memory, with the constituents that the database has for that version    *)
(* by now.                                                                 *)
(*                                                                         *)
(* The other writer, FnoUniverseService.refresh (src/engines/              *)
(* fno_universe.py), is left out: its INSERT binds generated_at as text to *)
(* a TIMESTAMPTZ column, so that its transaction never commits, and the    *)
(* scheduler, which calls it, shares no memory with the API's workers.     *)
(***************************************************************************)
EXTENDS Naturals, FiniteSets

CONSTANTS
    Symbols,    \* underlyings
    Synthetic,  \* those with TEST in their id
    Lists,      \* what NSE may publish
    Known,      \* what the script adds: instrument_master and its own list
    None,
    MaxVersion  \* bounds the writes

ASSUME UniverseAssumption ==
    /\ Lists \subseteq SUBSET Symbols /\ Known \subseteq Symbols
    /\ MaxVersion \in Nat

\* A snapshot is known by its checksum, the checksum by the list.
Keys == SUBSET Symbols
Headers == [key : Keys, version : Nat]

ASSUME NoneAssumption == None \notin Headers /\ \A k \in Keys : None # k

VARIABLES
    snaps,    \* fno_universe_snapshot: checksum -> [version, active]
    members,  \* fno_universe_membership: symbol -> checksum of its snapshot
    loader,   \* the run of the script: [at, list, version]
    cached    \* _current_snapshot of the API worker: [key, version]

vars == <<snaps, members, loader, cached>>

-----------------------------------------------------------------------------

Rows == DOMAIN snaps
Active == {k \in Rows : snaps[k].active}
Newest(K) == {k \in K : \A q \in K : snaps[q].version <= snaps[k].version}

\* get_current_snapshot: the newest ACTIVE one; an error is "there is none".
Currents == IF Active = {} THEN {None} ELSE Newest(Active)
Header(k) == IF k = None THEN None ELSE [key |-> k, version |-> snaps[k].version]

Finished == [at |-> "idle", list |-> {}, version |-> 0]

Init ==
    /\ snaps = <<>>
    /\ members = [s \in Symbols |-> None]
    /\ loader = Finished
    /\ cached = None

-----------------------------------------------------------------------------
(* scripts/load_fno_universe.py, run().  Its transactions are READ COMMITTED. *)

MaxStored == IF Rows = {} THEN 0 ELSE snaps[CHOOSE k \in Newest(Rows) : TRUE].version

\* The lists (NSE may not answer; then what is known has to do), and the first
\* statement of the first transaction.
LoaderRead ==
    /\ loader.at \in {"idle", "crashed"} /\ MaxStored < MaxVersion
    /\ \E nse \in Lists \cup {{}} :
         loader' = [at |-> "snapshot", list |-> Known \cup nse, version |-> MaxStored + 1]
    /\ UNCHANGED <<snaps, members, cached>>

\* Mutant: a snapshot that becomes current again keeps its old version.
LoaderSnapshotRevived ==
    LET key == loader.list
        version == IF key \in Rows THEN snaps[key].version ELSE loader.version
    IN
    /\ loader.at = "snapshot"
    /\ snaps' = [k \in Rows \cup {key} |->
                    IF k = key THEN [version |-> version, active |-> TRUE]
                    ELSE [snaps[k] EXCEPT !.active = FALSE]]
    /\ loader' = [loader EXCEPT !.at = "members"]
    /\ UNCHANGED <<members, cached>>

\* Everything is superseded; the snapshot of this checksum is new, or is given
\* the new version.
LoaderSnapshot ==
    LET key == loader.list IN
    /\ loader.at = "snapshot"
    /\ snaps' = [k \in Rows \cup {key} |->
                    IF k = key THEN [version |-> loader.version, active |-> TRUE]
                    ELSE [snaps[k] EXCEPT !.active = FALSE]]
    /\ loader' = [loader EXCEPT !.at = "members"]
    /\ UNCHANGED <<members, cached>>

\* Mutant: a symbol that is stored already keeps its snapshot.
LoaderMembersOnce ==
    /\ loader.at = "members"
    /\ members' = [s \in Symbols |-> IF s \in loader.list /\ members[s] = None
                                     THEN loader.list ELSE members[s]]
    /\ loader' = Finished
    /\ UNCHANGED <<snaps, cached>>

\* The second transaction.  There is one row for a symbol: it moves to the new
\* snapshot.  Nothing ends the membership of a symbol that has left the list.
LoaderMembers ==
    /\ loader.at = "members"
    /\ members' = [s \in Symbols |-> IF s \in loader.list THEN loader.list ELSE members[s]]
    /\ loader' = Finished
    /\ UNCHANGED <<snaps, cached>>

\* It ends within one of its transactions, which is rolled back, or between
\* them.
LoaderDies ==
    /\ loader.at \in {"snapshot", "members"}
    /\ loader' = [loader EXCEPT !.at = "crashed"]
    /\ UNCHANGED <<snaps, members, cached>>

-----------------------------------------------------------------------------
(* A worker of the API. *)

\* warm_cache_from_db at startup, and a GET that finds no snapshot in memory;
\* nothing replaces a snapshot that is there.
Warm ==
    /\ cached = None
    /\ \E k \in Currents : k # None /\ cached' = Header(k)
    /\ UNCHANGED <<snaps, members, loader>>

WorkerRestarts ==
    /\ cached # None
    /\ cached' = None
    /\ UNCHANGED <<snaps, members, loader>>

\* Mutant: the constituents are those of the active snapshots.
ConstituentsOfActive(v) == {s \in Symbols \ Synthetic : members[s] \in Active}

\* _load_fno_constituents, for every GET: the join by the header's version,
\* without synthetic rows.
Constituents(v) ==
    {s \in Symbols \ Synthetic : members[s] \in {k \in Rows : snaps[k].version = v}}

-----------------------------------------------------------------------------

Next ==
    \/ LoaderRead \/ LoaderSnapshot \/ LoaderMembers \/ LoaderDies
    \/ Warm \/ WorkerRestarts

Spec == Init /\ [][Next]_vars

-----------------------------------------------------------------------------

Versions == 0..MaxVersion
Memory == [key : Keys, version : Versions]

TypeOK ==
    /\ Rows \subseteq Keys
    /\ \A k \in Rows : snaps[k] \in [version : Versions \ {0}, active : BOOLEAN]
    /\ members \in [Symbols -> Rows \cup {None}]
    /\ loader \in [at : {"idle", "snapshot", "members", "crashed"},
                   list : SUBSET Symbols, version : Versions]
    /\ cached \in Memory \cup {None}

CurrentVersion == IF Active = {} THEN 0
                  ELSE snaps[CHOOSE k \in Newest(Active) : TRUE].version

(* The version of the current snapshot never goes back, although a list     *)
(* that returns gets its old row back, and runs of the script fail          *)
(* anywhere: a consumer may compare versions.                               *)
CurrentNeverOlder == [][CurrentVersion' >= CurrentVersion]_vars

(* Once a run of the script is complete, the current snapshot has exactly   *)
(* the tradeable symbols of its list as constituents, whatever earlier runs *)
(* that died between their transactions have left behind.                   *)
CurrentIsComplete ==
    loader.at = "idle" =>
        \A k \in Newest(Active) : Constituents(snaps[k].version) = k \ Synthetic

(* An answer never mixes two universes: the symbols that a worker finds for *)
(* the version it holds, however old, are all in that version's list.       *)
(* (They need not be all of it: rows that have moved on are missing, and    *)
(* the answer still says VALID_UNIVERSE.)                                   *)
NeverMixed ==
    cached # None => Constituents(cached.version) \subseteq cached.key

=============================================================================

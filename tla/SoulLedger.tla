----------------------------- MODULE SoulLedger -----------------------------
(***************************************************************************)
(* What the AgentRuntime protocol promises about an agent's Soul (ADR-011  *)
(* layer 2): an append-only, versioned ledger.  A version number is given  *)
(* once; as long as nobody has asked for the Soul to be wiped, the next    *)
(* version is one more than the last, so the ledger reads 1, 2, 3, ...     *)
(* Rows disappear only through a wipe.                                     *)
(*                                                                         *)
(* Storage back-ends (PgAgentRuntime, InMemoryAgentRuntime) are shown to   *)
(* implement this module.                                                  *)
(***************************************************************************)
EXTENDS Naturals

CONSTANTS
    Agent,      \* agent identifiers
    Row         \* stored Soul versions: records with a field "version"

VARIABLES
    history,    \* history[a]: the Soul versions stored for agent a
    wiped       \* wiped[a]: a flush that drops the Soul has committed for a

ledgerVars == <<history, wiped>>

VersionsOf(rows) == {r.version : r \in rows}

\* v is COALESCE(MAX(version), 0) + 1 over rows.
IsNextVersion(v, rows) ==
    /\ \A u \in VersionsOf(rows) : u < v
    /\ v = 1 \/ v - 1 \in VersionsOf(rows)

LedgerInit ==
    /\ history = [a \in Agent |-> {}]
    /\ wiped = [a \in Agent |-> FALSE]

LedgerAppend(a, r) ==
    /\ r.version \notin VersionsOf(history[a])
    /\ ~wiped[a] => IsNextVersion(r.version, history[a])
    /\ history' = [history EXCEPT ![a] = @ \cup {r}]
    /\ UNCHANGED wiped

LedgerWipe(a) ==
    /\ \E kept \in SUBSET history[a] : history' = [history EXCEPT ![a] = kept]
    /\ wiped' = [wiped EXCEPT ![a] = TRUE]

LedgerNext ==
    \E a \in Agent : LedgerWipe(a) \/ \E r \in Row : LedgerAppend(a, r)

LedgerSpec == LedgerInit /\ [][LedgerNext]_ledgerVars
=============================================================================

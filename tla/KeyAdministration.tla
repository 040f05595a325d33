--------------------------- MODULE KeyAdministration ---------------------------
(***************************************************************************)
(* create-ingest-key, create-ci-key and create-query-key (admin.py): each  *)
(* run reads the tenant, creates it when it is missing, adds a key and an  *)
(* audit row, commits, and prints the plaintext once.  Several runs may    *)
(* name the same new tenant at once.                                       *)
(*                                                                         *)
(* The tenant row is represented by the run that inserted it, which fixed  *)
(* its name and its random config_rollout_salt.  A run stands for its key. *)
(***************************************************************************)
EXTENDS Naturals, FiniteSets

CONSTANTS
    Run,        \* runs of the three commands
    Table,      \* Table[c]: "ingest", "ci" or "query"
    Tenant,     \* tenant ids
    TenantOf,   \* TenantOf[c]: --tenant-id
    Name,       \* Name[c]: --tenant-name
    Malformed,  \* runs whose options are refused before anything is read
    NoTenant    \* no row

ASSUME RunAssumption ==
    /\ Table \in [Run -> {"ingest", "ci", "query"}]
    /\ TenantOf \in [Run -> Tenant]
    /\ Malformed \subseteq Run
    /\ NoTenant \notin Run

VARIABLES
    run,        \* progress of each run
    tenants,    \* committed rows of the table tenants
    keys,       \* committed rows of the three key tables
    audited,    \* keys with a committed audit row
    shown       \* keys whose plaintext was printed

keyVars == <<run, tenants, keys, audited, shown>>

(* seen is the tenant row as read; NoTenant makes the run insert one.      *)
RunState ==
    [pc: {"read", "insert", "commit", "show", "done", "failed"}, seen: Run \cup {NoTenant}]

KeyTypeOK ==
    /\ run \in [Run -> RunState]
    /\ tenants \in [Tenant -> Run \cup {NoTenant}]
    /\ keys \subseteq Run /\ audited \subseteq Run /\ shown \subseteq Run

KeyInit ==
    /\ run = [c \in Run |-> [pc |-> "read", seen |-> NoTenant]]
    /\ tenants = [t \in Tenant |-> NoTenant]
    /\ keys = {} /\ audited = {} /\ shown = {}

-----------------------------------------------------------------------------
Go(c, pc) == run' = [run EXCEPT ![c].pc = pc]

Row(c) == tenants[TenantOf[c]]

(* The options are checked, the tenant is read, and its name compared.     *)
ReadTenant(c) ==
    /\ run[c].pc = "read"
    /\ \/ /\ c \in Malformed
          /\ Go(c, "failed")
       \/ /\ c \notin Malformed
          /\ IF Row(c) = NoTenant \/ Name[Row(c)] = Name[c]
             THEN run' = [run EXCEPT ![c] = [pc |-> "insert", seen |-> Row(c)]]
             ELSE Go(c, "failed")
    /\ UNCHANGED <<tenants, keys, audited, shown>>

(* Runs whose uncommitted tenant row makes the INSERT of c wait.           *)
TenantBlockers(c) ==
    {d \in Run \ {c} : /\ run[d].pc = "commit" /\ run[d].seen = NoTenant
                       /\ TenantOf[d] = TenantOf[c]}

(* Slip: the tenant is merged into an existing row.                        *)
DuplicateTenantMerged(c) == FALSE

(* The primary key of tenants.                                             *)
DuplicateTenant(c) == run[c].seen = NoTenant /\ Row(c) # NoTenant

(* The flush: the tenant, unless it was read, then the key and the audit   *)
(* row.                                                                    *)
InsertRows(c) ==
    /\ run[c].pc = "insert"
    /\ run[c].seen # NoTenant \/ TenantBlockers(c) = {}
    /\ Go(c, IF DuplicateTenant(c) THEN "failed" ELSE "commit")
    /\ UNCHANGED <<tenants, keys, audited, shown>>

CommitRows(c) ==
    /\ run[c].pc = "commit"
    /\ tenants' = IF run[c].seen = NoTenant
                  THEN [tenants EXCEPT ![TenantOf[c]] = c] ELSE tenants
    /\ keys' = keys \cup {c}
    /\ audited' = audited \cup {c}
    /\ Go(c, "show")
    /\ UNCHANGED shown

(* One command per key table.                                              *)
CreateIngestKey(c) == Table[c] = "ingest" /\ CommitRows(c)

CreateCiKey(c) == Table[c] = "ci" /\ CommitRows(c)

CreateQueryKey(c) == Table[c] = "query" /\ CommitRows(c)

(* run prints what the command returned.                                   *)
ShowKey(c) ==
    /\ run[c].pc = "show"
    /\ shown' = shown \cup {c}
    /\ Go(c, "done")
    /\ UNCHANGED <<tenants, keys, audited>>

(* The run is interrupted or loses its connection.                         *)
Interrupt(c) ==
    /\ run[c].pc \in {"read", "insert", "commit", "show"}
    /\ Go(c, "failed")
    /\ UNCHANGED <<tenants, keys, audited, shown>>

KeyNext ==
    \E c \in Run :
        \/ ReadTenant(c) \/ InsertRows(c)
        \/ CreateIngestKey(c) \/ CreateCiKey(c) \/ CreateQueryKey(c)
        \/ ShowKey(c) \/ Interrupt(c)

KeySpec == KeyInit /\ [][KeyNext]_keyVars

-----------------------------------------------------------------------------
(* Every key, and every plaintext shown, belongs to a stored tenant of     *)
(* the name its run gave, and every stored key is audited, although the    *)
(* name was compared before the tenant was written.                        *)
KeysBelongToNamedTenant ==
    /\ \A c \in keys : Row(c) # NoTenant /\ Name[Row(c)] = Name[c]
    /\ shown \subseteq keys /\ audited = keys

(* Well-typed runs whose keys have the right tenant.                       *)
KeyInv == KeyTypeOK /\ KeysBelongToNamedTenant

(* What makes it inductive.  The row a run read is still the row of its    *)
(* tenant, and has its name: rows are never replaced.                      *)
SeenIsStored ==
    \A c \in Run : run[c].seen # NoTenant =>
        run[c].seen = Row(c) /\ Name[Row(c)] = Name[c]

(* A run with an uncommitted tenant row is the only one, and no row is     *)
(* stored.                                                                 *)
InsertersAlone ==
    \A c \in Run : run[c].pc = "commit" /\ run[c].seen = NoTenant =>
        Row(c) = NoTenant /\ TenantBlockers(c) = {}

(* Only a committed key is about to be shown.                              *)
ShowsAreStored == \A c \in Run : run[c].pc = "show" => c \in keys

KeyHeld == KeyInv /\ SeenIsStored /\ InsertersAlone /\ ShowsAreStored
================================================================================

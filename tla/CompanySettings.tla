----------------------------- MODULE CompanySettings -----------------------------
(***************************************************************************)
(* CompanySettingService: one row of settings per tenant, made by whoever  *)
(* looks for it first. Nothing in the schema keeps it the only one, and    *)
(* findFirst has no order. A row is named after the request that made it;  *)
(* of its columns the model has one key of an outside service.             *)
(***************************************************************************)
EXTENDS Requests

VARIABLE settings   \* settings[r]: the key in the row r made, "none" before there is a row

svars == <<settings>>

SettingsSteps == {"idle", "first", "create", "write", "done", "lost"}
Keys == {"unset", "whole", "masked"}

SettingsTypeOK ==
    /\ settings \in [Requests -> Keys \cup {"none"}]
    /\ \A r \in Requests : call[r].pc \in SettingsSteps

SettingsInit == settings = [r \in Requests |-> "none"]

Stored == {r \in Requests : settings[r] # "none"}

-----------------------------------------------------------------------------
(* getSettings; updateSettings, updateApiKey, updateEnabledModules, updateBusinessHours *)

\* The key a request leaves in the row: updateApiKey writes the one it was given and
\* updateSettings what maskApiKey makes of it; the others leave the key alone.
Puts == {"read", "keep", "whole", "masked"}

AskSettings(r, put) ==
    /\ Begin(r, [pc |-> "first", put |-> put, row |-> r])
    /\ UNCHANGED svars

AfterRow(q) == IF q.put = "read" THEN Over ELSE [q EXCEPT !.pc = "write"]

\* Mutant: only an update looks for a row.
FoundByUpdates(q) == IF q.put = "read" THEN {} ELSE Stored

Found(q) == Stored

\* findFirst: any row that is there.
FindSettings(r) ==
    /\ call[r].pc = "first"
    /\ IF Found(call[r]) = {} THEN Go(r, "first", At(r, "create"))
       ELSE \E s \in Found(call[r]) : Go(r, "first", AfterRow([call[r] EXCEPT !.row = s]))
    /\ UNCHANGED svars

CreateDefaultSettings(r) ==
    /\ call[r].pc = "create"
    /\ Go(r, "create", AfterRow(call[r]))
    /\ settings' = [settings EXCEPT ![r] = "unset"]

WriteSettings(r) ==
    /\ call[r].pc = "write"
    /\ Go(r, "write", Over)
    /\ settings' = [settings EXCEPT ![call[r].row] =
                       IF call[r].put \in Keys THEN call[r].put ELSE @]

SettingsStep(r) ==
    \/ \E put \in Puts : AskSettings(r, put)
    \/ FindSettings(r) \/ CreateDefaultSettings(r) \/ WriteSettings(r)
    \/ Lose(r) /\ UNCHANGED svars

SettingsNext == \E r \in Requests : SettingsStep(r)

SettingsSpec == (RequestsInit /\ SettingsInit) /\ [][SettingsNext]_<<rvars, svars>>

-----------------------------------------------------------------------------
(* Properties *)

\* Once a request that nothing overlaps has made the row of settings, there is no other, however
\* requests race from then on (getSettings 19-35, findFirst then create): what any of them writes
\* is what the next one finds.
SettledRowIsOne == \A r, s \in Stored : r # s => ~alone[r]

\* There is one row, also when the first requests race for it (getSettings: creates default if not
\* exists).
SettingsAreAlwaysOne == \A r, s \in Stored : r = s

\* The key that is stored is the one of the outside service (getApiKey: unmasked).
KeysAreWhole == \A r \in Requests : settings[r] # "masked"
=============================================================================

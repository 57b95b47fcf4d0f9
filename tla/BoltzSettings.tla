--------------------------- MODULE BoltzSettings ---------------------------
(***************************************************************************)
(* The table of settings (crud.py) every client of Boltz is made from.     *)
(* Reading it is two steps when it is empty: the row of defaults is        *)
(* inserted in a second, whatever the table holds by then.  Nothing keeps  *)
(* the table at one row; rows that are equal are one to every reader, so   *)
(* it is a set.                                                            *)
(***************************************************************************)
EXTENDS Naturals

CONSTANTS
    Settings,       \* what a row may say
    Default,        \* what BoltzSettings() says
    Readers,        \* requests and tasks that read the settings
    MaxSaves        \* bound: PUT and DELETE requests

ASSUME SettingsAssumption == Default \in Settings /\ MaxSaves \in Nat

VARIABLES
    rows,           \* the rows of boltz.settings
    missing,        \* readers that have found none
    saves,          \* counter for the bound
    \* History, read by no action.
    saved,          \* what the last PUT answered, or the defaults
    astray          \* "unstored": that PUT found no row to update;
                    \* "doubled": there was a row when one was inserted

settingsVars == <<rows, missing, saves, saved, astray>>

SettingsTypeOK ==
    /\ rows \subseteq Settings
    /\ missing \subseteq Readers
    /\ saves \in Nat
    /\ saved \in Settings
    /\ astray \in {"no", "unstored", "doubled"}

SettingsInit ==
    /\ rows = {} /\ missing = {} /\ saves = 0
    /\ saved = Default /\ astray = "no"

\* get_or_create_boltz_settings, the SELECT: there is no row.
MissSettings(r) ==
    /\ r \notin missing /\ rows = {}
    /\ missing' = missing \cup {r}
    /\ UNCHANGED <<rows, saves, saved, astray>>

\* It answers one of the rows, or the defaults it has inserted.
GetSettings(r, settings) ==
    \/ /\ r \notin missing /\ settings \in rows
       /\ UNCHANGED settingsVars
    \/ /\ r \in missing /\ settings = Default
       /\ missing' = missing \ {r}
       /\ rows' = rows \cup {Default}
       /\ astray' = IF rows = {} THEN astray ELSE "doubled"
       /\ UNCHANGED <<saves, saved>>

\* Mutant: the row is inserted beside the others.
UpdateSettingsInserts(settings) ==
    /\ saves < MaxSaves /\ saves' = saves + 1
    /\ rows' = rows \cup {settings}
    /\ saved' = settings /\ astray' = "no"
    /\ UNCHANGED missing

\* update_boltz_settings: every row there is, and the answer in any case.
UpdateSettings(settings) ==
    /\ saves < MaxSaves /\ saves' = saves + 1
    /\ rows' = IF rows = {} THEN {} ELSE {settings}
    /\ saved' = settings
    /\ astray' = IF rows = {} THEN "unstored" ELSE "no"
    /\ UNCHANGED missing

DeleteSettings ==
    /\ saves < MaxSaves /\ saves' = saves + 1
    /\ rows' = {}
    /\ saved' = Default /\ astray' = "no"
    /\ UNCHANGED missing

\* The process dies with the requests that were reading.
SettingsCrash ==
    /\ missing' = {}
    /\ UNCHANGED <<rows, saves, saved, astray>>

-----------------------------------------------------------------------------
\* Once a PUT has been answered, every client made later uses what it saved,
\* unless the PUT found no row or, since then, a reader that had found the
\* table empty inserted the defaults beside the row.
SavedSettingsAreUsed ==
    astray = "no" => rows \subseteq {saved}

=============================================================================

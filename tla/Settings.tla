------------------------------- MODULE Settings -------------------------------
(***************************************************************************)
(* What the commands make of their configuration: config.py, and the parts *)
(* of cli.py that build the store and the notifier from it.  A setting is  *)
(* used or the command refuses it; what is missing has a default.          *)
(*                                                                         *)
(* `env` stands for the environment, with TELEGRAM_USERS as a sequence of  *)
(* what stood between its commas; `centres` for the list of                *)
(* service_centers.yaml.                                                   *)
(***************************************************************************)
EXTENDS Integers, SequencesExt

MAX_SCANNED_CENTERS == 5

NoText == ""         \* nothing between two commas, or an entry without an id
NotAnId == "@name"   \* neither ASCII nor a number
Placeholder == "TODO"

\* A sequence without its repetitions, in the order first seen.
Distinct(seq) == FoldLeft(LAMBDA s, x : IF Contains(s, x) THEN s ELSE Append(s, x), <<>>, seq)

-----------------------------------------------------------------------------
(* Service centres *)

\* load_service_centers: an entry that is no mapping counts as one without an
\* id.  Any such entry, or an id given twice, refuses the file.
RefusesFile(centres) ==
    \E i \in DOMAIN centres :
        \/ centres[i].id = NoText
        \/ \E j \in 1 .. i - 1 : centres[j].id = centres[i].id

\* find_service_center: the first entry with this id or exactly this name.
Find(centres, wanted) ==
    SelectInSeq(centres, LAMBDA c : c.id = wanted \/ c.name = wanted)

Enabled(centres) == SelectSeq(centres, LAMBDA c : c.enabled)

\* centers_to_scan: --center replaces the enabled list, and may name a
\* disabled centre.
CentresToScan(centres, overrides) ==
    IF overrides = <<>> THEN Enabled(centres)
    ELSE LET found == [i \in DOMAIN overrides |-> Find(centres, overrides[i])]
         IN  [i \in DOMAIN Distinct(found) |-> centres[Distinct(found)[i]]]

\* A name nobody listed, a placeholder that was enabled, none, or too many.
NamesNobody(centres, overrides) == \E i \in DOMAIN overrides : Find(centres, overrides[i]) = 0
RefusesCentres(centres, overrides) ==
    \/ NamesNobody(centres, overrides)
    \/ overrides = <<>> /\ \E c \in ToSet(Enabled(centres)) : c.name = Placeholder
    \/ /\ ~NamesNobody(centres, overrides)
       /\ Len(CentresToScan(centres, overrides)) \notin 1 .. MAX_SCANNED_CENTERS

-----------------------------------------------------------------------------
(* The database and the bot *)

\* require_persistence: a database is of no use without the key to what it keeps.
HasStore(env) == env.uri /\ env.key

\* parse_telegram_users
RefusesUsers(users) == Contains(users, NotAnId)
TelegramUsers(users) == Distinct(SelectSeq(users, LAMBDA u : u # NoText))

\* require_telegram, which asks before telegram.enabled is looked at.
RefusesNotifier(env) == env.token # (TelegramUsers(env.users) # <<>>)
HasNotifier(env) == ~RefusesNotifier(env) /\ env.enabled /\ env.token

-----------------------------------------------------------------------------
(* Numbers of app.yaml: a value is a number or something else - a boolean,   *)
(* a list, text that is not a number, NaN, infinity.                         *)

Number(n) == [is |-> "number", of |-> n]
NotANumber == [is |-> "other", of |-> 0]

MAX_SLOT_INTERVAL_SECONDS == 60
MAX_MONITOR_INTERVAL_SECONDS == 3600
MAX_TIMEOUT_SECONDS == 300
MAX_RETRY_ATTEMPTS == 5
MAX_BACKOFF_SECONDS == 120
MAX_MULTIPLIER == 10

IsNumber(value) == value.is = "number"
Positive(value, maximum) == IsNumber(value) /\ value.of > 0 /\ value.of <= maximum

SlotInterval(value) ==
    IsNumber(value) /\ value.of >= 0 /\ value.of <= MAX_SLOT_INTERVAL_SECONDS
MonitorInterval(value) == Positive(value, MAX_MONITOR_INTERVAL_SECONDS)
Timeout(value) == Positive(value, MAX_TIMEOUT_SECONDS)

\* _retry_from_dict
RetryPolicy(retry) ==
    /\ IsNumber(retry.max_attempts) /\ retry.max_attempts.of \in 1 .. MAX_RETRY_ATTEMPTS
    /\ Positive(retry.initial_backoff, MAX_BACKOFF_SECONDS)
    /\ Positive(retry.max_backoff, MAX_BACKOFF_SECONDS)
    /\ retry.max_backoff.of >= retry.initial_backoff.of
    /\ IsNumber(retry.multiplier)
    /\ retry.multiplier.of >= 1 /\ retry.multiplier.of <= MAX_MULTIPLIER
    /\ Positive(retry.max_retry_after, MAX_TIMEOUT_SECONDS)

\* ApiConfig.from_dict
ApiSettings(api) ==
    /\ SlotInterval(api.slot_interval) /\ MonitorInterval(api.monitor_interval)
    /\ Timeout(api.connect) /\ Timeout(api.read)
    /\ RetryPolicy(api.retry)

\* AppConfig.load: what no command of this configuration gets past.
RefusesLoading(settings) ==
    \/ ~ApiSettings(settings.api)
    \/ RefusesUsers(settings.env.users)
    \/ RefusesFile(settings.centres)

=============================================================================

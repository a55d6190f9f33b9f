------------------------------ MODULE Onboarding ------------------------------
(***************************************************************************)
(* Taking a customer on: adapters/onboarding/onboard-core.ts, run by the   *)
(* console (onboarding-service.ts) or by scripts/onboard-customer.ts, and  *)
(* the seed of its memory: the go-live watermark and the WhatsApp history  *)
(* pull of customers/onboarding-backfill.ts, and the module set of         *)
(* customers/customer-modules.ts.  Two runs may work on one customer, and  *)
(* the pull is one for all customers while the watermark is each one's.    *)
(***************************************************************************)
EXTENDS Naturals, FiniteSets

CONSTANTS
    Partners,      \* business partners (bp_ref) that become customers
    Addresses,     \* contact addresses
    AddressesOf,   \* what the directories list for each partner
    Listed,        \* addresses of the WhatsApp manager's directory
    Writers,       \* customers that send a live message
    Operated,      \* customers whose modules the operator sets
    Modules,       \* module keys
    Observable,    \* keys a customer's own memory shows
    Onboarders,    \* runs that may be under way at the same time
    EntryOf,       \* "cli" | "console" | "seed": how each run is started
    MaxRuns,       \* bound: runs started
    MaxHitches     \* bound: runs that throw or die

ASSUME OnboardingAssumption ==
    /\ AddressesOf \in [Partners -> SUBSET Addresses \ {{}}]
    /\ Listed \subseteq Addresses
    /\ Writers \subseteq Partners /\ Operated \subseteq Partners
    /\ Observable \in [Partners -> SUBSET Modules]
    /\ EntryOf \in [Onboarders -> {"cli", "console", "seed"}]
    /\ MaxRuns \in Nat /\ MaxHitches \in Nat

VARIABLES
    profile,    \* agent_customers: [known, topic, cutoff, scoped] (topic 0 is NULL)
    owner,      \* agent_customer_contacts: whose each address is; {} or one partner
    modules,    \* agent_customer_modules: "absent" | "on" | "off"
    picks,      \* history: the operator's last choice, and what he chose among
    pulled,     \* app_state onboard:wa-backfill:<customer>
    archive,    \* the manager's pull: [running, error, covers]
    letter,     \* one live message of each customer: [at, afterGoLive]
    greetings,  \* welcome notices in each customer's topic
    topics,     \* forum topics opened so far
    fetched,    \* history: customers whose old messages a clean pull fetched
    run,        \* each run: [at, partner, left, topic]
    runs, hitches

onboardingVars == <<profile, owner, modules, picks, pulled, archive, letter,
                    greetings, topics, fetched, run, runs, hitches>>
ledgers == <<owner, modules, picks, pulled, archive, letter, fetched>>

Known == {c \in Partners : profile[c].known}
Idle == [at |-> "rest", partner |-> "none", left |-> {}, topic |-> 0]
AtStep(w, step) == run[w].at = step
StepTo(w, step) == run' = [run EXCEPT ![w].at = step]
Done(w) == run' = [run EXCEPT ![w] = Idle]

\* The command seeds in the same run; the console's operator starts the seed.
Onwards(w) == IF EntryOf[w] = "cli" THEN "stamp" ELSE "rest"

-----------------------------------------------------------------------------
(* Onboarding.  The console refuses a partner that has a row; the command   *)
(* goes over it again.  The seed of the console runs once per customer at a *)
(* time, in one process.                                                    *)

StartRun(w, c) ==
    /\ AtStep(w, "rest")
    /\ runs < MaxRuns
    /\ runs' = runs + 1
    /\ \/ EntryOf[w] = "console" /\ c \notin Known
       \/ EntryOf[w] = "cli"
       \/ /\ EntryOf[w] = "seed" /\ c \in Known
          /\ \A v \in Onboarders : EntryOf[v] = "seed" => run[v].partner # c
    /\ run' = [run EXCEPT ![w].partner = c,
                          ![w].at = IF EntryOf[w] = "seed" THEN "stamp" ELSE "upsert"]
    /\ UNCHANGED <<ledgers, profile, greetings, topics, hitches>>

UpsertCustomer(w) ==
    /\ AtStep(w, "upsert")
    /\ LET c == run[w].partner IN
       /\ profile' = [profile EXCEPT ![c].known = TRUE]
       /\ run' = [run EXCEPT ![w].at = "contacts", ![w].left = AddressesOf[c],
                             ![w].topic = profile[c].topic]
    /\ UNCHANGED <<ledgers, greetings, topics, runs, hitches>>

\* An address another customer had becomes this customer's.  The directory of
\* WhatsApp may be out of reach; what is left of it is then skipped.
ImportContact(w) ==
    /\ AtStep(w, "contacts")
    /\ \E S \in SUBSET run[w].left :
       /\ \/ Cardinality(S) = 1 /\ owner' = [a \in Addresses |->
                 IF a \in S THEN {run[w].partner} ELSE owner[a]]
          \/ S = run[w].left /\ S \subseteq Listed /\ UNCHANGED owner
       /\ run' = [run EXCEPT ![w].left = @ \ S,
             ![w].at = IF run[w].left # S THEN "contacts"
                       ELSE IF run[w].topic = 0 THEN "topic" ELSE Onwards(w)]
    /\ UNCHANGED <<profile, modules, picks, pulled, archive, letter, fetched,
                   greetings, topics, runs, hitches>>

\* ensureCustomerTopic: the customer's topic as it is now, or a new one.
EnsureTopic(w) ==
    /\ AtStep(w, "topic")
    /\ LET kept == profile[run[w].partner].topic IN
       /\ topics' = IF kept = 0 THEN topics + 1 ELSE topics
       /\ run' = [run EXCEPT ![w].at = "claim",
                             ![w].topic = IF kept = 0 THEN topics + 1 ELSE kept]
    /\ UNCHANGED <<ledgers, profile, greetings, runs, hitches>>

\* Mutant of ClaimTopic: the UPDATE has no telegram_topic_id IS NULL.
ClaimTopicAgain(w) ==
    /\ AtStep(w, "claim")
    /\ profile' = [profile EXCEPT ![run[w].partner].topic = run[w].topic]
    /\ StepTo(w, "welcome")
    /\ UNCHANGED <<ledgers, greetings, topics, runs, hitches>>

ClaimTopic(w) ==
    /\ AtStep(w, "claim")
    /\ \/ /\ profile[run[w].partner].topic = 0
          /\ profile' = [profile EXCEPT ![run[w].partner].topic = run[w].topic]
          /\ StepTo(w, "welcome")
       \/ /\ profile[run[w].partner].topic # 0
          /\ StepTo(w, Onwards(w))
          /\ UNCHANGED profile
    /\ UNCHANGED <<ledgers, greetings, topics, runs, hitches>>

Welcome(w) ==
    /\ AtStep(w, "welcome")
    /\ greetings' = [greetings EXCEPT ![run[w].partner] = @ + 1]
    /\ StepTo(w, Onwards(w))
    /\ UNCHANGED <<ledgers, profile, topics, runs, hitches>>

EndRun(w) ==
    /\ AtStep(w, "rest") /\ run[w] # Idle
    /\ Done(w)
    /\ UNCHANGED <<ledgers, profile, greetings, topics, runs, hitches>>

\* The portal, Telegram, the database or the process fails between two steps.
BreakOff(w) ==
    /\ ~AtStep(w, "rest")
    /\ hitches < MaxHitches
    /\ hitches' = hitches + 1
    /\ Done(w)
    /\ UNCHANGED <<ledgers, profile, greetings, topics, runs>>

-----------------------------------------------------------------------------
(* The seed.                                                                *)

\* backfill_cutoff = now() where it is NULL: every message sent so far is early.
SetCutoff(c) ==
    \/ /\ ~profile[c].cutoff
       /\ profile' = [profile EXCEPT ![c].cutoff = TRUE]
       /\ letter' = [letter EXCEPT ![c].at = IF @ = "waiting" THEN "early" ELSE @]
    \/ profile[c].cutoff /\ UNCHANGED <<profile, letter>>

\* seedActiveModulesFromMemory inserts and overwrites nothing; it may fail.
SeedModules(c) ==
    \/ modules' = [modules EXCEPT ![c] = [k \in Modules |->
          IF k \in Observable[c] /\ @[k] = "absent" THEN "on" ELSE @[k]]]
    \/ UNCHANGED modules

StampCutoff(w) ==
    /\ AtStep(w, "stamp")
    /\ SetCutoff(run[w].partner)
    /\ SeedModules(run[w].partner)
    /\ StepTo(w, "gate")
    /\ UNCHANGED <<owner, picks, pulled, archive, fetched, greetings,
                   topics, runs, hitches>>

\* ensureWaHistoryPull: not twice, and not while another customer is without
\* a watermark.
GatePull(w) ==
    /\ AtStep(w, "gate")
    /\ LET c == run[w].partner
           ungated == {d \in Known \ {c} : ~profile[d].cutoff}
       IN StepTo(w, IF c \in pulled \/ ungated # {} THEN "rest" ELSE "trigger")
    /\ UNCHANGED <<ledgers, profile, greetings, topics, runs, hitches>>

\* POST /backfill: 202 starts a pull, 409 says one is running, 503 not ready.
TriggerPull(w) ==
    /\ AtStep(w, "trigger")
    /\ \/ /\ ~archive.running
          /\ archive' = [running |-> TRUE, error |-> FALSE, covers |-> Known]
          /\ StepTo(w, "wait")
       \/ StepTo(w, "rest") /\ UNCHANGED archive
    /\ UNCHANGED <<owner, modules, picks, pulled, letter, fetched,
                   profile, greetings, topics, runs, hitches>>

\* waitForBackfill: the end of a pull is a status that is not running and has
\* no error; the wait may also end before the pull does.
AwaitPull(w) ==
    /\ AtStep(w, "wait")
    /\ \/ ~archive.running /\ ~archive.error /\ StepTo(w, "mark")
       \/ ~archive.running /\ archive.error /\ StepTo(w, "rest")
       \/ archive.running /\ StepTo(w, "rest")
    /\ UNCHANGED <<ledgers, profile, greetings, topics, runs, hitches>>

MarkPulled(w) ==
    /\ AtStep(w, "mark")
    /\ pulled' = pulled \cup {run[w].partner}
    /\ StepTo(w, "rest")
    /\ UNCHANGED <<owner, modules, picks, archive, letter, fetched,
                   profile, greetings, topics, runs, hitches>>

-----------------------------------------------------------------------------
(* The operator's modules, the manager's pull and the customer's messages.  *)

\* setOperatorModules, one transaction.
DeclareModules(c, chosen) ==
    /\ c \in Known \cap Operated
    /\ ~profile[c].scoped
    /\ modules' = [modules EXCEPT ![c] = [k \in Modules |->
          IF k \in chosen THEN "on" ELSE IF @[k] = "on" THEN "off" ELSE @[k]]]
    /\ picks' = [picks EXCEPT ![c] = [chosen |-> chosen,
          among |-> chosen \cup {k \in Modules : modules[c][k] # "absent"}]]
    /\ profile' = [profile EXCEPT ![c].scoped = TRUE]
    /\ UNCHANGED <<owner, pulled, archive, letter, fetched, greetings,
                   topics, run, runs, hitches>>

FinishPull(error) ==
    /\ archive.running
    /\ archive' = [archive EXCEPT !.running = FALSE, !.error = error]
    /\ fetched' = IF error THEN fetched ELSE fetched \cup archive.covers
    /\ UNCHANGED <<owner, modules, picks, pulled, letter, profile,
                   greetings, topics, run, runs, hitches>>

LetterComes(c) ==
    /\ c \in Known \cap Writers /\ letter[c].at = "none"
    /\ letter' = [letter EXCEPT ![c] = [at |-> "waiting", afterGoLive |-> profile[c].cutoff]]
    /\ UNCHANGED <<owner, modules, picks, pulled, archive, fetched,
                   profile, greetings, topics, run, runs, hitches>>

\* isPreCutoff skips a message sent before the watermark, for ever.
TriageLetter(c) ==
    /\ letter[c].at \in {"waiting", "early"}
    /\ letter' = [letter EXCEPT ![c].at = IF @ = "early" THEN "muted" ELSE "triaged"]
    /\ UNCHANGED <<owner, modules, picks, pulled, archive, fetched,
                   profile, greetings, topics, run, runs, hitches>>

-----------------------------------------------------------------------------
OnboardingInit ==
    /\ profile = [c \in Partners |->
          [known |-> FALSE, topic |-> 0, cutoff |-> FALSE, scoped |-> FALSE]]
    /\ owner = [a \in Addresses |-> {}]
    /\ modules = [c \in Partners |-> [k \in Modules |-> "absent"]]
    /\ picks = [c \in Partners |-> [chosen |-> {}, among |-> {}]]
    /\ pulled = {}
    /\ archive = [running |-> FALSE, error |-> FALSE, covers |-> {}]
    /\ letter = [c \in Partners |-> [at |-> "none", afterGoLive |-> FALSE]]
    /\ greetings = [c \in Partners |-> 0]
    /\ topics = 0
    /\ fetched = {}
    /\ run = [w \in Onboarders |-> Idle]
    /\ runs = 0 /\ hitches = 0

RunStep(w) ==
    \/ UpsertCustomer(w) \/ ImportContact(w) \/ EnsureTopic(w) \/ ClaimTopic(w)
    \/ Welcome(w) \/ EndRun(w) \/ StampCutoff(w) \/ GatePull(w) \/ TriggerPull(w)
    \/ AwaitPull(w) \/ MarkPulled(w)

OnboardingNext ==
    \/ \E w \in Onboarders :
        RunStep(w) \/ BreakOff(w) \/ \E c \in Partners : StartRun(w, c)
    \/ \E c \in Partners :
        \/ LetterComes(c) \/ TriageLetter(c)
        \/ \E chosen \in SUBSET Modules : DeclareModules(c, chosen)
    \/ \E error \in BOOLEAN : FinishPull(error)

OnboardingSpec == OnboardingInit /\ [][OnboardingNext]_onboardingVars

-----------------------------------------------------------------------------
\* Types of the state.
OnboardingTypeOK ==
    /\ owner \in [Addresses -> SUBSET Partners]
    /\ modules \in [Partners -> [Modules -> {"absent", "on", "off"}]]
    /\ pulled \subseteq Partners /\ fetched \subseteq Partners
    /\ topics \in Nat /\ runs \in 0..MaxRuns /\ hitches \in 0..MaxHitches

\* However many runs take a customer on at the same time, and wherever they
\* break off, the customer's topic never changes once it is recorded and the
\* customer is welcomed once (claimTelegramTopic's IS NULL, and the welcome only
\* for the run that won it).
OneTopicPerCustomer ==
    [][\A c \in Partners :
        /\ profile[c].topic # 0 => profile'[c].topic = profile[c].topic
        /\ greetings'[c] <= 1]_onboardingVars

\* A customer whose history pull is marked done, never to be repeated, is one
\* whose old messages a pull fetched that began after the customer was known and
\* ended cleanly: not one that was under way, that failed or that timed out.
PulledIsFetched == pulled \subseteq fetched

\* Seeding a customer again undoes no decision: it never mutes a message sent
\* after the customer went live (stampBackfillCutoff: "silent, unrecoverable data
\* loss"), and the modules the operator chose among stay as he chose them.
SeedKeepsDecisions ==
    \A c \in Partners :
        /\ letter[c].at \in {"early", "muted"} => ~letter[c].afterGoLive
        /\ profile[c].scoped =>
              \A k \in picks[c].among : modules[c][k] = "on" <=> k \in picks[c].chosen

\* A customer who is taken on again, by whichever run, keeps the topic, the
\* history and the settings he has.
OnboardsOnce == OneTopicPerCustomer /\ []PulledIsFetched /\ []SeedKeepsDecisions

===============================================================================

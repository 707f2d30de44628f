----------------------------- MODULE Notifications -----------------------------
(***************************************************************************)
(* Slack notifications: the rules and the bot token (notification_service, *)
(* settings_service and their repositories), the three background jobs     *)
(* that announce something (scheduler), and what the cancellation service  *)
(* sends after its commit.                                                 *)
(*                                                                         *)
(* check_expiring_licenses_job marks what has expired, announces it and    *)
(* commits at its very end: it holds its transaction, and the locks of the *)
(* rows it marked, while it waits for Slack.  The request handlers commit  *)
(* first and announce afterwards.                                          *)
(***************************************************************************)
EXTENDS Naturals, Sequences

CONSTANTS
    Expirables,     \* of what can expire: licences, packages and organisation licences
    Rules,          \* rows of notification_rules that may exist
    AskedEvents,    \* the event types administrators enter
    Senders,        \* jobs and requests under way at the same time
    Reported        \* how many entries an inactivity or offboarding report may have

ASSUME NoticeAssumptions ==
    /\ Expirables \subseteq {"license", "package", "org"}
    /\ Reported \subseteq Nat

\* notify_*: each looks for the enabled rules of its event type; without one it sends
\* nothing, otherwise one message per rule.
LicenseEnds == [expired |-> "license_expired", cancelled |-> "license_cancelled"]
PackageEnds == [expired |-> "package_expired", cancelled |-> "package_cancelled"]
OrgLicenseEnds == [expired |-> "org_license_expired", cancelled |-> "org_license_cancelled"]
LicenseGoesOn == [renewed |-> "license_renewed", reorder |-> "license_needs_reorder"]
PackageGoesOn == [renewed |-> "package_renewed", reorder |-> "package_needs_reorder"]
OrgLicenseGoesOn ==
    [renewed |-> "org_license_renewed", reorder |-> "org_license_needs_reorder"]
ExpiringEvent == "license_expiring"
ReportEvent == [inactive |-> "license_inactive", offboarded |-> "employee_offboarded"]

EndOf == [license |-> LicenseEnds, package |-> PackageEnds, org |-> OrgLicenseEnds]
GoesOn == [license |-> LicenseGoesOn, package |-> PackageGoesOn, org |-> OrgLicenseGoesOn]

ChangeEvent(kind, what) ==
    IF what \in {"renewed", "reorder"} THEN GoesOn[kind][what] ELSE EndOf[kind][what]

Events ==
    {ExpiringEvent, ReportEvent.inactive, ReportEvent.offboarded}
        \cup {ChangeEvent(k, w) :
                  k \in Expirables, w \in {"expired", "cancelled", "renewed", "reorder"}}

NoEvent == "none"

SlackMaxRetries == 3

\* The settings page stores the token under "slack", as the test message reads it; the
\* jobs and the cancellation service look under "slack_config".
SettingKeys == {"slack", "slack_config"}

VARIABLES
    rule,       \* [Rules -> [event, enabled]]
    tokenAt,    \* the settings keys that hold a bot token
    item,       \* [Expirables -> what one licence, package or organisation licence is]
    heard,      \* history: [Expirables -> what became of the announcement of its expiry]
    sender      \* [Senders -> what a job or a request is doing]

noticeVars == <<rule, tokenAt, item, heard, sender>>

NoRule == [event |-> NoEvent, enabled |-> FALSE]

\* A call of notify_*; about names the item whose expiry it announces, if that is what it
\* does.
Call(event, about) == [event |-> event, about |-> about]

\* A sender with no message under way.
Sending(doing, step, marks, calls) ==
    [job |-> doing, at |-> step, marks |-> marks, calls |-> calls, rules |-> {},
     attempt |-> 0, posted |-> 0, lost |-> 0]

IdleSender == Sending("none", "idle", {}, <<>>)

Calls == [event : Events, about : Expirables \cup {"nothing"}]

SenderRows ==
    [job : {"none", "expiring", "report", "request"}, at : {"idle", "token", "calls", "post"},
     marks : SUBSET Expirables, calls : Seq(Calls), rules : SUBSET Rules,
     attempt : 0 .. SlackMaxRetries, posted : 0 .. SlackMaxRetries, lost : 0 .. SlackMaxRetries]

NoticesInit ==
    /\ rule = [x \in Rules |-> NoRule]
    /\ tokenAt = {}
    /\ item = [k \in Expirables |-> "current"]
    /\ heard = [k \in Expirables |-> "no"]
    /\ sender = [s \in Senders |-> IdleSender]

Locked(k) == \E s \in Senders : k \in sender[s].marks

RulesFor(event) == {x \in Rules : rule[x] = [event |-> event, enabled |-> TRUE]}

-----------------------------------------------------------------------------
(* Administration of the rules and of the token. *)

CreateRule(x, event) ==
    /\ rule[x] = NoRule
    /\ rule' = [rule EXCEPT ![x] = [event |-> event, enabled |-> TRUE]]
    /\ UNCHANGED <<tokenAt, item, heard, sender>>

\* The event type of a rule cannot be edited.  The page lists only enabled rules.
UpdateRule(x, enabled) ==
    /\ rule[x] # NoRule
    /\ rule' = [rule EXCEPT ![x].enabled = enabled]
    /\ UNCHANGED <<tokenAt, item, heard, sender>>

DeleteRule(x) ==
    /\ rule[x] # NoRule
    /\ rule' = [rule EXCEPT ![x] = NoRule]
    /\ UNCHANGED <<tokenAt, item, heard, sender>>

SetSetting(key) ==
    /\ tokenAt' = tokenAt \cup {key}
    /\ UNCHANGED <<rule, item, heard, sender>>

DeleteSetting(key) ==
    /\ tokenAt' = tokenAt \ {key}
    /\ UNCHANGED <<rule, item, heard, sender>>

-----------------------------------------------------------------------------
(* What there is to announce. *)

\* The expiry date of an item passes.
ComesDue(k) ==
    /\ item[k] = "current"
    /\ item' = [item EXCEPT ![k] = "due"]
    /\ UNCHANGED <<rule, tokenAt, heard, sender>>

\* check_and_update_expired_licenses: marked in the open transaction of the job; the
\* scheduler runs one instance of a job at a time.
BeginExpiring(s) ==
    /\ sender[s] = IdleSender
    /\ \A q \in Senders : sender[q].job # "expiring"
    /\ LET due == {k \in Expirables : item[k] = "due"}
       IN  sender' = [sender EXCEPT ![s] = Sending("expiring", "token", due, <<>>)]
    /\ UNCHANGED <<rule, tokenAt, item, heard>>

ReportLimit == [inactive |-> 10, offboarded |-> 5]

\* The first entries of the report are announced, the rest never are; an empty report
\* does not even look for the token.
BeginReport(s, report, entries) ==
    /\ sender[s] = IdleSender
    /\ entries > 0
    /\ LET sent == IF entries < ReportLimit[report] THEN entries ELSE ReportLimit[report]
           calls == [i \in 1 .. sent |-> Call(ReportEvent[report], "nothing")]
       IN  sender' = [sender EXCEPT ![s] = Sending("report", "token", {}, calls)]
    /\ UNCHANGED <<rule, tokenAt, item, heard>>

\* A cancellation, a renewal or a reorder flag: committed before the token is read.  Its
\* update waits for a job that has marked the row.
Request(s, k, what) ==
    /\ sender[s] = IdleSender
    /\ ~Locked(k)
    /\ CASE what = "renewed" ->
              /\ item' = [item EXCEPT ![k] = "current"]
              /\ heard' = [heard EXCEPT ![k] = "no"]
         [] what = "cancelled" ->
              /\ \E now \in {item[k], "cancelled"} : item' = [item EXCEPT ![k] = now]
              /\ UNCHANGED heard
         [] what = "reorder" -> UNCHANGED <<item, heard>>
    /\ LET calls == <<Call(ChangeEvent(k, what), "nothing")>>
       IN  sender' = [sender EXCEPT ![s] = Sending("request", "token", {}, calls)]
    /\ UNCHANGED <<rule, tokenAt>>

-----------------------------------------------------------------------------
(* Sending. *)

Excuse(K) ==
    heard' = [k \in Expirables |-> IF k \in K /\ heard[k] = "no" THEN "excused" ELSE heard[k]]

Announced(k, marked) == IF marked THEN <<Call(EndOf[k].expired, k)>> ELSE <<>>

\* Mutant: organisation licences are announced when the count of packages says so.
ExpiredCallsCopied(marks) ==
    Announced("license", "license" \in marks) \o Announced("package", "package" \in marks)
        \o Announced("org", "package" \in marks)

\* One announcement per kind of which this run marked anything.
ExpiredCalls(marks) ==
    Announced("license", "license" \in marks) \o Announced("package", "package" \in marks)
        \o Announced("org", "org" \in marks)

\* Then one per provider with something that will expire soon.
ExpiringCalls(groups) == [i \in 1 .. groups |-> Call(ExpiringEvent, "nothing")]

\* One such provider at most, of whom only the daily job speaks.
ExpiringGroups(doing) == IF doing = "expiring" THEN 0 .. 1 ELSE {0}

\* Whoever sends looks for the token first and says nothing without one.
ReadToken(s) ==
    /\ sender[s].at = "token"
    /\ LET row == sender[s] IN
       IF "slack_config" \in tokenAt
       THEN /\ \E groups \in ExpiringGroups(row.job) :
                  sender' = [sender EXCEPT ![s] =
                      [row EXCEPT !.at = "calls",
                                  !.calls = @ \o ExpiredCalls(row.marks) \o ExpiringCalls(groups)]]
            /\ UNCHANGED heard
       ELSE /\ sender' = [sender EXCEPT ![s] = [row EXCEPT !.at = "calls", !.calls = <<>>]]
            /\ Excuse(row.marks)
    /\ UNCHANGED <<rule, tokenAt, item>>

Current(s) == Head(sender[s].calls)

\* The rules of the event are read at every call.
StartCall(s) ==
    /\ sender[s].at = "calls" /\ sender[s].calls # <<>>
    /\ LET row == sender[s]
           found == RulesFor(Current(s).event) IN
       IF found = {}
       THEN /\ sender' = [sender EXCEPT ![s] = [row EXCEPT !.calls = Tail(@)]]
            /\ Excuse({Current(s).about})
       ELSE /\ sender' = [sender EXCEPT ![s] = [row EXCEPT !.at = "post", !.rules = found]]
            /\ UNCHANGED heard
    /\ UNCHANGED <<rule, tokenAt, item>>

\* What one post may come to: delivered or not, and what the sender learns of it.
PostOutcomes ==
    {[delivered |-> TRUE, answer |-> "ok"], [delivered |-> FALSE, answer |-> "rate_limited"],
     [delivered |-> FALSE, answer |-> "retryable"], [delivered |-> FALSE, answer |-> "refused"],
     [delivered |-> TRUE, answer |-> "timeout"], [delivered |-> FALSE, answer |-> "timeout"],
     [delivered |-> TRUE, answer |-> "http_error"], [delivered |-> FALSE, answer |-> "http_error"]}

\* Mutant: the loop forgets to return after Slack accepted the message.
TriesAgainAlways(answer, attempt) ==
    answer \in {"ok", "rate_limited", "retryable", "timeout"} /\ attempt < SlackMaxRetries

\* The message is posted again after a rate limit, an unknown error or a timeout.
TriesAgain(answer, attempt) ==
    answer \in {"rate_limited", "retryable", "timeout"} /\ attempt < SlackMaxRetries

\* The sender with the message for one of its rules dealt with, whatever came of it: the
\* result of _send_slack_message is not looked at.
AfterMessage(row, x) ==
    LET left == row.rules \ {x} IN
    [row EXCEPT !.rules = left, !.attempt = 0, !.posted = 0, !.lost = 0,
                !.at = IF left = {} THEN "calls" ELSE "post",
                !.calls = IF left = {} THEN Tail(@) ELSE @]

Post(s) ==
    /\ sender[s].at = "post"
    /\ \E o \in PostOutcomes, x \in sender[s].rules :
          LET row == sender[s]
              attempt == row.attempt + 1 IN
          sender' = [sender EXCEPT ![s] =
              IF TriesAgain(o.answer, attempt)
              THEN [row EXCEPT !.attempt = attempt,
                               !.posted = @ + (IF o.delivered THEN 1 ELSE 0),
                               !.lost = @ + (IF o.delivered /\ o.answer # "ok" THEN 1 ELSE 0)]
              ELSE AfterMessage(row, x)]
    /\ heard' = IF Current(s).about \in Expirables
                THEN [heard EXCEPT ![Current(s).about] = "asked"] ELSE heard
    /\ UNCHANGED <<rule, tokenAt, item>>

\* The commit of a job; a request has committed long before.
Finish(s) ==
    /\ sender[s].at = "calls" /\ sender[s].calls = <<>>
    /\ item' = [k \in Expirables |-> IF k \in sender[s].marks THEN "expired" ELSE item[k]]
    /\ sender' = [sender EXCEPT ![s] = IdleSender]
    /\ UNCHANGED <<rule, tokenAt, heard>>

\* An answer that is no JSON, or a failing query, leaves through every loop: the job rolls
\* its marks back, a request only logs it.
Fail(s) ==
    /\ sender[s] # IdleSender
    /\ sender' = [sender EXCEPT ![s] = IdleSender]
    /\ UNCHANGED <<rule, tokenAt, item, heard>>

\* A crash of the process ends them all.
Crash ==
    /\ sender' = [s \in Senders |-> IdleSender]
    /\ UNCHANGED <<rule, tokenAt, item, heard>>

-----------------------------------------------------------------------------
AdminNext ==
    \/ \E x \in Rules : (\E e \in AskedEvents : CreateRule(x, e)) \/ DeleteRule(x)
    \/ \E x \in Rules, enabled \in BOOLEAN : UpdateRule(x, enabled)
    \/ \E key \in SettingKeys : SetSetting(key) \/ DeleteSetting(key)

SendNext(s) ==
    \/ BeginExpiring(s)
    \/ \E report \in DOMAIN ReportEvent, n \in Reported : BeginReport(s, report, n)
    \/ \E k \in Expirables, what \in {"cancelled", "renewed", "reorder"} : Request(s, k, what)
    \/ ReadToken(s) \/ StartCall(s) \/ Post(s) \/ Finish(s) \/ Fail(s)

NoticesNext ==
    \/ AdminNext
    \/ \E k \in Expirables : ComesDue(k)
    \/ \E s \in Senders : SendNext(s)
    \/ Crash

NoticesSpec == NoticesInit /\ [][NoticesNext]_noticeVars

-----------------------------------------------------------------------------
\* Rules, settings, items and senders are well formed.
NoticesTypeOK ==
    /\ rule \in [Rules -> [event : AskedEvents \cup {NoEvent}, enabled : BOOLEAN]]
    /\ tokenAt \in SUBSET SettingKeys
    /\ item \in [Expirables -> {"current", "due", "expired", "cancelled"}]
    /\ heard \in [Expirables -> {"no", "asked", "excused"}]
    /\ sender \in [Senders -> SenderRows]

(* No expiry takes effect in silence: whatever the job has marked as       *)
(* expired for good, Slack had been asked to announce before, unless there *)
(* was no token or no rule for it; no failure of the job, of Slack or of   *)
(* the process comes between.                                              *)
NoSilentExpiry == \A k \in Expirables : item[k] = "expired" => heard[k] # "no"

(* One call posts the message of a rule a second time only if the answer   *)
(* to an earlier post was lost.  (Rules carry no channel here: two rules   *)
(* that name the same channel do tell it the same thing twice.)            *)
RepeatsOnlyAfterLostAnswers ==
    \A s \in Senders : sender[s].posted <= sender[s].lost
==============================================================================

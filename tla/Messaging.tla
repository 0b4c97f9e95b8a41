----------------------------- MODULE Messaging -----------------------------
(***************************************************************************)
(* Messages between the factory and its users: the outbound queue          *)
(* (state/queries/outbound.ts), the worker that drains it                  *)
(* (daemon/outbound-worker.ts), the `/send` route that delivers beside it  *)
(* (daemon/server.ts), the channels with their inbound handlers            *)
(* (channels/registry.ts, telegram.ts, discord.ts, cli-rpc.ts) and the     *)
(* reply poll of `factory chat` (cli/commands/chat.ts).                    *)
(*                                                                         *)
(* Telegram keeps every update until a later getUpdates confirms it and    *)
(* hands it out again to a daemon that has forgotten its offset; Discord   *)
(* pushes an event once, to a connected daemon.  A send reaches the chat   *)
(* before the daemon knows, and may reach it and still fail for the        *)
(* daemon: its answer can be late or lost.                                 *)
(* A pending question and the message that asks it share one name.         *)
(***************************************************************************)
EXTENDS Naturals, Sequences, SequencesExt, FiniteSets, FiniteSetsExt

CONSTANTS Msg,          \* outbound messages
          Question,     \* those that askUser enqueues with a pending question
          Direct,       \* those that arrive through POST /send
          Target,       \* channel of each message
          Chat,         \* chat or thread of each message
          Alike,        \* sets of Telegram posts with the same message_id
          Event,        \* what users may do: see Inbound
          MaxAttempts,  \* failed deliveries after which a message is abandoned
          Window,       \* rows that the reply poll of `factory chat` looks at
          Batch,        \* rows that a drain pass of the worker takes
          Flaky,        \* channels whose start may fail
          Together,     \* bound: sets of messages that are sent in one behaviour
          MaxEvents,    \* bound: events that users cause
          MaxTraffic,   \* bound: messages and events together
          MaxStarts     \* bound: daemon starts

Channel == {"telegram", "discord", "cli"}
None == "none"

\* A message in a chat or thread (`on`, `post`: the bot's message that it
\* replies to or whose thread it is in), Discord's /factory command, a press
\* of a question's button, or a modal; `text` is what it asks for.
Command == {"read", "cancel", "build", "resume", "budget"}
Inbound == [via : {"telegram", "discord"}, kind : {"message", "slash", "button", "modal"},
            on : Msg \cup {None}, post : Nat, text : {"chat"} \cup Command]

\* A message on Discord asks for nothing but a build.
Writable(e) == e.via = "discord" /\ e.kind = "message" => e.text \in {"chat", "build"}

ASSUME MessagingAssumption ==
    /\ Question \subseteq Msg /\ Direct \subseteq Msg \ Question
    /\ None \notin Msg
    /\ Target \in [Msg -> Channel]
    /\ \A m, n \in Msg : Chat[m] = Chat[n] => Target[m] = Target[n]
    /\ Alike \subseteq SUBSET (Msg \X (Nat \ {0}))
    /\ \A same \in Alike : \A a, b \in same : a # b => Chat[a[1]] # Chat[b[1]]
    /\ Event \subseteq Inbound /\ \A e \in Event : Writable(e)
    /\ MaxAttempts \in Nat \ {0} /\ Window \in Nat \ {0} /\ Batch \in Nat \ {0}
    /\ Flaky \subseteq Channel \ {"cli"}
    /\ Together \subseteq SUBSET Msg
    /\ MaxEvents \in Nat /\ MaxTraffic \in Nat /\ MaxStarts \in Nat

VARIABLES
    daemon,     \* the daemon process
    starts,
    channel,    \* the registry's status of each channel
    queue,      \* outbound rows, oldest first
    delivered,  \* rows with a delivered_at
    attempts,   \* their failed deliveries
    batch,      \* what the worker's drain pass still has to deliver
    call,       \* the message whose delivery is in flight, per sender
    landed,     \* senders whose call in flight has posted its message
    posts,      \* how often a message stands in its chat
    unsure,     \* those of its posts that the daemon has not recorded
    open,       \* unanswered questions
    by,         \* the event whose text answered a question
    stamp,      \* bot_message_id: which of its posts the row names, or 0
    bare,       \* delivered questions whose stamp could not be written
    inbox,      \* what users did, in order; an index is an update_id
    at,         \* where the handler of an event is
    handled,    \* events whose handler has ended at least once
    effects,    \* directives, answers and cancels an event has caused
    updates,    \* the poll loop's batch
    offset,     \* its cursor, 0 when undefined
    confirmed   \* update ids below it are forgotten by Telegram

life == <<daemon, starts, channel>>
outbox == <<queue, delivered, attempts>>
sending == <<batch, call, landed, posts, unsure>>
questions == <<open, by, stamp, bare>>
handlers == <<inbox, at, handled, effects>>
polling == <<updates, offset, confirmed>>
vars == <<life, outbox, sending, questions, handlers, polling>>

Sender == {"worker", "route"}
Id == 1..MaxEvents

TypeOK ==
    /\ daemon \in {"down", "up", "stopping"}
    /\ starts \in 0..MaxStarts
    /\ channel \in [Channel -> {"disabled", "ready", "failed"}]
    /\ queue \in Seq(Msg) /\ IsInjective(queue)
    /\ delivered \subseteq Range(queue)
    /\ attempts \in [Msg -> Nat]
    /\ batch \in Seq(Msg)
    /\ call \in [Sender -> Msg \cup {None}]
    /\ landed \subseteq Sender
    /\ posts \in [Msg -> Nat] /\ unsure \in [Msg -> Nat]
    /\ open \subseteq Question /\ bare \subseteq Question
    /\ by \in [Question -> 0..MaxEvents]
    /\ stamp \in [Question -> Nat]
    /\ inbox \in Seq(Inbound) /\ Len(inbox) <= MaxEvents
    /\ at \in [Id -> {"idle", "classify", "resolve"}]
    /\ handled \subseteq Id
    /\ effects \in [Id -> Nat]
    /\ updates \in Seq(Id)
    /\ offset \in Nat /\ confirmed \in Nat

---------------------------------------------------------------------------
(* The outbound queue *)

Quiet == Len(queue) + Len(inbox) < MaxTraffic

\* Another message may be enqueued.
Admits(m) == Quiet /\ \E few \in Together : Range(queue) \cup {m} \subseteq few

Queued(m) == m \in Range(queue)

\* The elements of a sequence that are in a set, in the order of the sequence.
Among(seq, set) ==
    LET kept[n \in 0..Len(seq)] ==
            IF n = 0 THEN <<>> ELSE IF seq[n] \in set THEN Append(kept[n - 1], seq[n]) ELSE kept[n - 1]
    IN  kept[Len(seq)]

\* A bug: Delivered rows are read again.
ListPendingAgain == Among(queue, {m \in Msg : attempts[m] < MaxAttempts})

\* listPending: undelivered rows below the attempt cap, oldest first.
ListPending == Among(queue, {m \in Msg \ delivered : attempts[m] < MaxAttempts})

Prefix(s, n) == SubSeq(s, 1, IF Len(s) < n THEN Len(s) ELSE n)

\* outbound.enqueue; askUser inserts the question's row beside it.
Enqueue(m) ==
    /\ m \notin Direct /\ ~Queued(m) /\ Admits(m)
    /\ daemon = "up"
    /\ queue' = Append(queue, m)
    /\ open' = open \cup ({m} \cap Question)
    /\ UNCHANGED <<life, delivered, attempts, sending, by, stamp, bare, handlers, polling>>

\* CliRpcChannel.send: nothing in the program registers a live session.
NoSession(m) == Target[m] = "cli"

\* ChannelRegistry.send refuses a channel that is not ready.
Refused(m) == channel[Target[m]] # "ready" \/ NoSession(m)

\* recordFailure adds an attempt, whatever the row says by now.
RecordFailures(ms) == [m \in Msg |-> attempts[m] + Cardinality({i \in DOMAIN ms : ms[i] = m})]

\* The chat service posts the message of a call: users see it before the
\* daemon knows.  Until the call's return is recorded the post is unsure.
Land(s) ==
    /\ call[s] # None /\ s \notin landed
    /\ landed' = landed \cup {s}
    /\ posts' = [posts EXCEPT ![call[s]] = @ + 1]
    /\ unsure' = [unsure EXCEPT ![call[s]] = @ + 1]
    /\ UNCHANGED <<life, outbox, batch, call, questions, handlers, polling>>

\* The call reports its post, and the row is marked delivered.
Recorded(s, m) ==
    /\ s \in landed
    /\ delivered' = delivered \cup {m}
    /\ unsure' = [unsure EXCEPT ![m] = @ - 1]

\* It reports none, its answer is late or lost, or the mark fails.
Unrecorded == UNCHANGED <<delivered, unsure>>

---------------------------------------------------------------------------
(* The outbound worker *)

\* The length of a batch's prefix of messages that are refused at once.
Refusals(ms) ==
    LET dialled == {i \in DOMAIN ms : ~Refused(ms[i])}
    IN IF dialled = {} THEN Len(ms) ELSE Min(dialled) - 1

\* drainOnce goes through its batch, recording refusals, until a provider is
\* called; all of this is one step of the event loop.  `failed` holds the
\* message of the call before, if that failed.
Continue(ms, failed) ==
    LET n == Refusals(ms) IN
    /\ attempts' = RecordFailures(failed \o SubSeq(ms, 1, n))
    /\ batch' = SubSeq(ms, n + 2, Len(ms))
    /\ call' = [call EXCEPT !["worker"] = IF n < Len(ms) THEN ms[n + 1] ELSE None]
    /\ landed' = landed \ {"worker"}

\* drainOnce reads its batch once, at its begin.
Drain ==
    /\ daemon = "up" /\ call["worker"] = None
    /\ ListPending # <<>>
    /\ Continue(Prefix(ListPending, Batch), <<>>)
    /\ UNCHANGED <<life, queue, delivered, posts, unsure, questions, handlers, polling>>

\* A bug: Nothing is stamped.
Unstamped(m) == UNCHANGED <<stamp, bare>>

\* A question's row is stamped with the id of its post, the latest one; that
\* the write fails is only logged.
Stamped(m) ==
    \/ m \notin Question /\ UNCHANGED <<stamp, bare>>
    \/ m \in Question /\ stamp' = [stamp EXCEPT ![m] = posts[m]] /\ UNCHANGED bare
    \/ m \in Question /\ bare' = bare \cup {m} /\ UNCHANGED stamp

\* The worker's call returns; unless it is to stop, it goes on.
Delivered ==
    LET m == call["worker"]
        rest == IF daemon = "up" THEN batch ELSE <<>>
    IN /\ m # None
       /\ \/ Recorded("worker", m) /\ Stamped(m) /\ Continue(rest, <<>>)
          \/ Unrecorded /\ UNCHANGED <<stamp, bare>> /\ Continue(rest, <<m>>)
       /\ UNCHANGED <<life, queue, posts, open, by, handlers, polling>>

---------------------------------------------------------------------------
(* POST /send *)

\* The row is enqueued and the worker's doorbell rung before the route
\* delivers the message itself.
Send(m) ==
    /\ m \in Direct /\ ~Queued(m) /\ Admits(m)
    /\ daemon = "up" /\ call["route"] = None
    /\ queue' = Append(queue, m)
    /\ IF Refused(m)
       THEN attempts' = RecordFailures(<<m>>) /\ UNCHANGED call
       ELSE call' = [call EXCEPT !["route"] = m] /\ UNCHANGED attempts
    /\ UNCHANGED <<life, delivered, batch, landed, posts, unsure, questions, handlers, polling>>

\* The route's call returns.
Sent ==
    LET m == call["route"] IN
    /\ m # None
    /\ call' = [call EXCEPT !["route"] = None]
    /\ landed' = landed \ {"route"}
    /\ \/ Recorded("route", m) /\ UNCHANGED attempts
       \/ Unrecorded /\ attempts' = RecordFailures(<<m>>)
    /\ UNCHANGED <<life, queue, batch, posts, questions, handlers, polling>>

---------------------------------------------------------------------------
(* `factory chat` *)

\* drainReply takes its session's rows from the oldest undelivered ones,
\* among which are abandoned ones and those of other channels.
CliDrain ==
    LET rows == Prefix(Among(queue, Msg \ delivered), Window)
        mine == {m \in Range(rows) : Target[m] = "cli"}
    IN /\ mine # {}
       /\ delivered' = delivered \cup mine
       /\ UNCHANGED <<life, queue, attempts, sending, questions, handlers, polling>>

---------------------------------------------------------------------------
(* What users do *)

\* The posts that a user may reply to.
Visible(e) == IF e.on = None THEN {0} ELSE 1..posts[e.on]

\* A user writes or presses a button.  Discord tells a connected daemon only.
UserActs(e) ==
    /\ Len(inbox) < MaxEvents /\ Quiet
    /\ e.via = "discord" => daemon = "up" /\ channel["discord"] = "ready"
    /\ \E n \in Visible(e) : inbox' = Append(inbox, [e EXCEPT !.post = n])
    /\ UNCHANGED <<life, outbox, sending, questions, at, handled, effects, polling>>

\* The question is answered, or claimed by the auto-answer, elsewhere.
AnsweredElsewhere(q) ==
    /\ q \in open
    /\ open' = open \ {q}
    /\ UNCHANGED <<life, outbox, sending, by, stamp, bare, handlers, polling>>

---------------------------------------------------------------------------
(* Inbound handlers *)

\* The handler of event i may begin: Telegram's poll loop handles one update
\* after the other, Discord's events are handled as they come.
CanBegin(i) ==
    /\ i \in 1..Len(inbox) /\ at[i] = "idle"
    /\ IF inbox[i].via = "telegram"
       THEN updates # <<>> /\ Head(updates) = i
       ELSE daemon = "up" /\ channel["discord"] = "ready" /\ i \notin handled

\* The open question of a chat or thread that was asked first.
Oldest(chat) ==
    LET mine == Among(queue, {m \in open : Chat[m] = chat})
    IN IF mine = <<>> THEN {} ELSE {mine[1]}

\* Two posts with one message_id: ids are unique in a chat only.
SameId(a, b) == a = b \/ \E same \in Alike : {a, b} \subseteq same

\* A Telegram reply: an open question whose row names the id of the post
\* that it replies to, of whatever chat; else the oldest open one of the chat.
Targeted(e) ==
    LET named == {q \in open : SameId(<<q, stamp[q]>>, <<e.on, e.post>>)}
    IN IF e.on = None THEN {} ELSE IF named # {} THEN named ELSE Oldest(Chat[e.on])

\* A Discord message in a thread answers the thread's oldest open question.
InThread(e) == IF e.on # None THEN Oldest(Chat[e.on]) ELSE {}

\* The question whose id is in a button's data or a modal's id; what is not
\* the factory's names none.
Named(e) == {e.on} \ {None}

\* Skip and escalate answer the question that their button names; the answer
\* button (here a press with the text "read") only asks for a text.
Pressed(e) == IF e.text = "read" THEN {} ELSE Named(e) \cap open

\* A submitted modal answers its question, unless that is no longer open.
Submitted(e) == Named(e) \cap open

Answers(e) ==
    CASE e.kind = "button" -> Pressed(e)
      [] e.kind = "modal"  -> Submitted(e)
      [] e.kind = "slash"  -> {}
      [] OTHER -> IF e.via = "telegram" THEN Targeted(e) ELSE InThread(e)

\* A handler ends.  Telegram's poll loop moves its cursor past the update,
\* also when the handler threw.
Finish(i) ==
    /\ at' = [at EXCEPT ![i] = "idle"]
    /\ handled' = handled \cup {i}
    /\ IF inbox[i].via = "telegram"
       THEN updates' = Tail(updates) /\ offset' = i + 1
       ELSE UNCHANGED <<updates, offset>>

Effect(i) == effects' = [effects EXCEPT ![i] = @ + 1]

\* pendingQuestions.answer, from a reply, a button or a modal.
AnswerQuestion(i) ==
    /\ CanBegin(i)
    /\ \E q \in Answers(inbox[i]) :
        /\ open' = open \ {q}
        /\ by' = [by EXCEPT ![q] = i]
    /\ Effect(i)
    /\ Finish(i)
    /\ UNCHANGED <<life, outbox, sending, stamp, bare, inbox, confirmed>>

\* Telegram: a bot, a message without a text, a chat that is not allowed, a
\* group message that neither mentions the bot nor replies to it.
TelegramIgnores(e) == e.via = "telegram" /\ e.kind = "message"

\* Discord: a bot, another guild, a user who is not allowed, a message outside
\* threads that does not mention the bot.
DiscordIgnores(e) == e.via = "discord" /\ e.kind = "message"

\* A slash command of a user who is not allowed, or an unknown one.
SlashRefused(e) == e.kind = "slash"

\* A press or a modal of a user who is not allowed, of an unknown question or
\* an answered one, or of a button that only asks for a text.
PressRefused(e) == e.kind \in {"button", "modal"}

Ignore(i) ==
    /\ CanBegin(i)
    /\ \/ TelegramIgnores(inbox[i]) \/ DiscordIgnores(inbox[i])
       \/ SlashRefused(inbox[i]) \/ PressRefused(inbox[i])
    /\ Finish(i)
    /\ UNCHANGED <<life, outbox, sending, questions, inbox, effects, confirmed>>

\* A message that answers nothing.
Unanswering(i) == inbox[i].kind = "message" /\ Answers(inbox[i]) = {}

\* A chat message waits for the classifier, on Discord for its thread first.
ToClassifier(i) ==
    /\ CanBegin(i)
    /\ Unanswering(i) /\ inbox[i].text = "chat"
    /\ at' = [at EXCEPT ![i] = "classify"]
    /\ UNCHANGED <<life, outbox, sending, questions, inbox, handled, effects, polling>>

\* A slash message or Discord's /factory: the command waits for Discord's
\* deferred reply, or for the project's path and limits.
ToCommand(i) ==
    /\ CanBegin(i)
    /\ inbox[i].kind = "slash" \/ Unanswering(i)
    /\ inbox[i].text \in Command
    /\ inbox[i].via = "telegram" => inbox[i].text \notin {"read", "cancel"}
    /\ at' = [at EXCEPT ![i] = "resolve"]
    /\ UNCHANGED <<life, outbox, sending, questions, inbox, handled, effects, polling>>

\* The classifier routes the text to a command.
ChatRoutes == {"read", "resume", "build"}

Routed(i) ==
    /\ at[i] = "classify"
    /\ at' = [at EXCEPT ![i] = "resolve"]
    /\ UNCHANGED <<life, outbox, sending, questions, inbox, handled, effects, polling>>

\* A handler ends, with an effect or without one.
Ends(i) ==
    /\ Finish(i)
    /\ UNCHANGED <<life, outbox, sending, questions, inbox, confirmed>>

\* onInbound: the directive is inserted; a failing insert is only logged.
Insert(i) == Effect(i) \/ UNCHANGED effects

\* It routes it nowhere, or fails: a directive with the chat intent.
Unrouted(i) ==
    /\ at[i] = "classify"
    /\ Insert(i)
    /\ Ends(i)

\* Discord's /factory, after its deferred reply.
Deferred(i, text) == at[i] = "resolve" /\ inbox[i].kind = "slash" /\ inbox[i].text = text

\* A slash message of Telegram, or Discord's build prefix.
Spelt(i, text) == at[i] = "resolve" /\ inbox[i].kind = "message" /\ inbox[i].text = text

\* A command that the classifier chose.
FromChat(i, text) == at[i] = "resolve" /\ inbox[i].text = "chat" /\ text \in ChatRoutes

\* Telegram's commands that wait for nothing run in the handler's first step.
AtOnce(i, text) ==
    /\ CanBegin(i) /\ inbox[i].via = "telegram" /\ Unanswering(i)
    /\ inbox[i].text = text /\ text \in {"read", "cancel"}

\* The command that runs now.
Runs(i, text) == Deferred(i, text) \/ Spelt(i, text) \/ FromChat(i, text) \/ AtOnce(i, text)

\* A slash message that names no project or directive is answered with the
\* usage of its command.
Usage(i, text) ==
    /\ text # "read"
    /\ Spelt(i, text) \/ AtOnce(i, text)
    /\ inbox[i].via = "telegram"
    /\ UNCHANGED effects
    /\ Ends(i)

\* /status, /spend and /findings read.
ReadCommand(i) ==
    /\ Runs(i, "read")
    /\ UNCHANGED effects
    /\ Ends(i)

\* /cancel marks the row of a directive, or finds none that it may mark.
CancelCommand(i) ==
    /\ Runs(i, "cancel")
    /\ Effect(i) \/ UNCHANGED effects
    /\ Ends(i)

\* /budget writes the project's metadata, or finds no such project.
BudgetCommand(i) ==
    /\ Runs(i, "budget")
    /\ Effect(i) \/ UNCHANGED effects
    /\ Ends(i)

\* /resume inserts a child of the project's last directive, or finds none.
ResumeCommand(i) ==
    /\ Runs(i, "resume")
    /\ Insert(i)
    /\ Ends(i)

\* A bug: A build routed from chat is followed by the chat directive.
BuildTwice(i) ==
    /\ Runs(i, "build")
    /\ effects' = [effects EXCEPT ![i] = @ + (IF inbox[i].text = "chat" THEN 2 ELSE 1)]
    /\ Ends(i)

\* /build inserts a directive; one routed from chat that threw before it did
\* falls back to the chat directive.
BuildCommand(i) ==
    /\ Runs(i, "build")
    /\ Insert(i)
    /\ Ends(i)

---------------------------------------------------------------------------
(* Telegram's long poll *)

UpdatesFrom(first) ==
    Among([i \in 1..Len(inbox) |-> i], {i \in 1..Len(inbox) : inbox[i].via = "telegram" /\ i >= first})

\* A bug: The cursor runs ahead of the handlers.
GetUpdatesEager ==
    /\ daemon = "up" /\ channel["telegram"] = "ready" /\ updates = <<>>
    /\ confirmed' = Len(inbox) + 1
    /\ updates' = UpdatesFrom(confirmed)
    /\ UNCHANGED <<life, outbox, sending, questions, handlers, offset>>

\* getUpdates confirms what lies below its offset and returns the rest; a
\* failing request may have confirmed it too.
GetUpdates ==
    /\ daemon = "up" /\ channel["telegram"] = "ready" /\ updates = <<>>
    /\ confirmed' = Max({confirmed, offset})
    /\ updates' = UpdatesFrom(confirmed')
    /\ <<confirmed', updates'>> # <<confirmed, updates>>
    /\ UNCHANGED <<life, outbox, sending, questions, handlers, offset>>

---------------------------------------------------------------------------
(* The daemon *)

\* Telegram's start asks who the bot is; that its commands could not be
\* registered does not count.
TelegramStarts == IF "telegram" \in Flaky THEN {"ready", "failed"} ELSE {"ready"}

\* Discord's start logs in and waits for its ready event, handlers attached.
DiscordStarts == IF "discord" \in Flaky THEN {"ready", "failed"} ELSE {"ready"}

CliStarts == {"ready"}

\* The registry starts one channel after the other, whatever becomes of each.
Boot ==
    /\ daemon = "down" /\ starts < MaxStarts
    /\ daemon' = "up" /\ starts' = starts + 1
    /\ channel' \in [telegram : TelegramStarts, discord : DiscordStarts, cli : CliStarts]
    /\ UNCHANGED <<outbox, sending, questions, handlers, polling>>

\* Everything in memory is gone: batches, calls, handlers, the offset.
Forget ==
    /\ channel' = [c \in Channel |-> "disabled"]
    /\ batch' = <<>>
    /\ call' = [s \in Sender |-> None]
    /\ landed' = {}
    /\ at' = [i \in Id |-> "idle"]
    /\ updates' = <<>>
    /\ offset' = 0

\* A crash: what a call in flight has posted stays unrecorded.
Crash ==
    /\ daemon # "down"
    /\ daemon' = "down"
    /\ Forget
    /\ UNCHANGED <<starts, outbox, posts, unsure, questions, inbox, handled, effects, confirmed>>

\* stop(): the worker and the poll loop end with what they are doing.
Stop ==
    /\ daemon = "up"
    /\ daemon' = "stopping"
    /\ UNCHANGED <<starts, channel, outbox, sending, questions, handlers, polling>>

\* The worker, the server's open requests and the poll loop have ended; the
\* last cursor was never sent to Telegram.
Stopped ==
    /\ daemon = "stopping"
    /\ \A s \in Sender : call[s] = None
    /\ updates = <<>>
    /\ daemon' = "down"
    /\ Forget
    /\ UNCHANGED <<starts, outbox, posts, unsure, questions, inbox, handled, effects, confirmed>>

---------------------------------------------------------------------------
Init ==
    /\ daemon = "down" /\ starts = 0
    /\ channel = [c \in Channel |-> "disabled"]
    /\ queue = <<>> /\ delivered = {} /\ attempts = [m \in Msg |-> 0]
    /\ batch = <<>> /\ call = [s \in Sender |-> None] /\ landed = {}
    /\ posts = [m \in Msg |-> 0] /\ unsure = [m \in Msg |-> 0]
    /\ open = {} /\ by = [q \in Question |-> 0] /\ stamp = [q \in Question |-> 0]
    /\ bare = {}
    /\ inbox = <<>> /\ at = [i \in Id |-> "idle"]
    /\ handled = {} /\ effects = [i \in Id |-> 0]
    /\ updates = <<>> /\ offset = 0 /\ confirmed = 0

Handler(i) ==
    \/ AnswerQuestion(i) \/ Ignore(i)
    \/ ToClassifier(i) \/ Routed(i) \/ Unrouted(i)
    \/ ToCommand(i) \/ \E text \in Command : Usage(i, text)
    \/ ReadCommand(i) \/ CancelCommand(i) \/ BudgetCommand(i)
    \/ ResumeCommand(i) \/ BuildCommand(i)

\* What the daemon's event loop does by itself.
Step ==
    \/ Drain \/ Delivered \/ Sent \/ GetUpdates \/ Stopped
    \/ \E i \in Id : Handler(i)

Next ==
    \/ \E m \in Msg : Enqueue(m) \/ Send(m)
    \/ Step
    \/ CliDrain
    \/ \E s \in Sender : Land(s)
    \/ \E e \in Event : UserActs(e)
    \/ \E q \in Question : AnsweredElsewhere(q)
    \/ Boot \/ Crash \/ Stop

Spec == Init /\ [][Next]_vars

---------------------------------------------------------------------------
(* Properties *)

\* A message stands in its chat once, once more per post that is not
\* recorded (not yet, or never: a late answer of the provider, a failing
\* mark, a crash), and once more for POST /send, which delivers beside the
\* worker it woke.
PostsExplained ==
    \A m \in Msg : posts[m] <= (IF m \in Direct THEN 2 ELSE 1) + unsure[m]

\* Telegram forgets no update that no handler has seen to its end, through
\* failing requests, stops and crashes (the poll loop's cursor).
ConfirmedHandled ==
    \A i \in 1..Len(inbox) :
        inbox[i].via = "telegram" /\ i < confirmed => i \in handled

\* An event of a user causes one directive, answer or cancel, and at most
\* one more for each later start of the daemon, which may be handed the
\* update again; Discord's events never cause two.
EffectsBounded ==
    \A i \in 1..Len(inbox) :
        effects[i] <= IF inbox[i].via = "telegram" THEN starts ELSE 1

\* A reply to a question on Telegram answers another one only if its own is
\* no longer open, or has a post that is not recorded (a late or lost answer,
\* a failing mark, a crash, or the moment between the post and its stamp), or
\* has a stamp that could not be written, or if the other one's row names the
\* same message_id in another chat.
ReplyOnly(e, q) ==
    e.via = "telegram" /\ e.on # q =>
        \/ e.on \notin open
        \/ unsure[e.on] > 0
        \/ e.on \in bare
        \/ \E same \in Alike : {<<q, stamp[q]>>, <<e.on, e.post>>} \subseteq same

StraysOnlyBy ==
    [][\A q \in Question : by'[q] # by[q] => ReplyOnly(inbox[by'[q]], q)]_vars

=============================================================================

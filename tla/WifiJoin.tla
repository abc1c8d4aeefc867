------------------------------ MODULE WifiJoin ------------------------------
(***************************************************************************)
(* Joining the network: connect_wifi of src/src/main.rs, the join of       *)
(* src/vendor/cyw43/src/control.rs, and the part of the runner that turns  *)
(* the radio's events into a link state and passes some of them on.        *)
(*                                                                         *)
(* Commands go to the radio and events and answers come back in order, but *)
(* each at its own pace; the runner drains the events while the caller may *)
(* be anywhere.  Events reach the caller through a queue of two that gives *)
(* up its oldest message, and carry no mark of the attempt they belong to: *)
(* "attempt" below is for the properties only.                             *)
(***************************************************************************)
EXTENDS Integers, Sequences

CONSTANTS
  QueueSize,     \* 2 in the code: messages in the event queue
  MaxAttempts    \* bound: joins in one session

ASSUME JoinAssumption ==
  /\ QueueSize \in Nat \ {0, 1}
  /\ MaxAttempts \in Nat \ {0}

VARIABLES
  app,          \* where connect_wifi is, see Phases
  enabled,      \* the event mask is set and a subscriber exists
  queue,        \* messages the subscriber has not seen
  auth_ok, join_ok, key_exchange_ok,   \* the runner's flags
  link,         \* the driver's link state, Up or not
  config,       \* the network stack has an address
  commands,     \* requests sent, not yet taken by the radio
  air,          \* events and answers the runner has not yet read
  script,       \* events the radio will still send of the current attempt
  complete,     \* the current attempt has sent all its events
  associated, keyed,   \* the radio's own state
  attempt,      \* joins the radio has begun
  decided_by    \* the attempt of the event that decided the last join

flags   == <<auth_ok, join_ok, key_exchange_ok, link, config>>
radio   == <<script, complete, associated, keyed, attempt>>
channel == <<enabled, queue>>
vars    == <<app, channel, flags, commands, air, radio, decided_by>>

(* Inside the join, where its 15-second timeout can drop it. *)
Joining == {"prepare", "set_ssid", "listen", "flash"}
Phases  == Joining \cup {"start", "begin", "joined", "link_wait", "dhcp", "leave", "leave_first",
                         "pause", "online"}

Event(what, n) == [what |-> what, attempt |-> n]
AnswerTo(command) == Event(command, 0)

(* What an attempt sends, from what the code expects of it: a success, in  *)
(* the three orders the code allows for, or a failure.                     *)
Successes ==
  { <<"AUTH", "JOIN", "SET_SSID", "PSK_SUP">>,
    <<"AUTH", "JOIN", "PSK_SUP", "SET_SSID">>,
    <<"AUTH", "JOIN", "PSK_SUP_ABORT", "SET_SSID", "PSK_SUP">> }

Failures ==
  { <<"NO_NETWORKS">>,
    <<"AUTH_FAIL", "SET_SSID_FAIL">>,
    <<"AUTH", "JOIN", "SET_SSID", "PSK_SUP_FAIL", "LINK_DOWN">> }

Init ==
  /\ app = "start"
  /\ enabled = FALSE /\ queue = <<>>
  /\ auth_ok = FALSE /\ join_ok = FALSE /\ key_exchange_ok = FALSE
  /\ link = FALSE /\ config = FALSE
  /\ commands = <<>> /\ air = <<>>
  /\ script = <<>> /\ complete = FALSE
  /\ associated = FALSE /\ keyed = FALSE
  /\ attempt = 0 /\ decided_by = 0

(* The awake budget drops every future and the radio loses its power; the  *)
(* next cycle creates all of it anew.                                      *)
BudgetExpires ==
  /\ app' = "start"
  /\ enabled' = FALSE /\ queue' = <<>>
  /\ auth_ok' = FALSE /\ join_ok' = FALSE /\ key_exchange_ok' = FALSE
  /\ link' = FALSE /\ config' = FALSE
  /\ commands' = <<>> /\ air' = <<>>
  /\ script' = <<>> /\ complete' = FALSE
  /\ associated' = FALSE /\ keyed' = FALSE
  /\ attempt' = 0 /\ decided_by' = 0

-----------------------------------------------------------------------------
(* The join.                                                               *)

(* A request joins those before it; its caller waits for the answer. *)
Request(command) == commands' = Append(commands, command)

CallConnect ==
  /\ app = "start"
  /\ app' = "begin"
  /\ UNCHANGED <<channel, flags, commands, air, radio, decided_by>>

BeginJoin ==
  /\ app = "begin"
  /\ attempt < MaxAttempts
  /\ Request("Configure")
  /\ app' = "prepare"
  /\ UNCHANGED <<channel, flags, air, radio, decided_by>>

Subscribe == enabled' = TRUE /\ queue' = <<>>

(* UnsubscribeOnDrop, and the subscriber's own drop. *)
Unsubscribe == enabled' = FALSE /\ queue' = <<>>

(* How wait_for_join reads an event.  It goes on after any other. *)
Succeeds(what) == what = "PSK_SUP"
Fails(what) == what \in {"NO_NETWORKS", "SET_SSID_FAIL", "PSK_SUP_FAIL", "AUTH_FAIL"}

Hear ==
  /\ app = "listen"
  /\ queue # <<>>
  /\ queue' = Tail(queue)
  /\ ~ Succeeds(Head(queue).what) /\ ~ Fails(Head(queue).what)
  /\ UNCHANGED <<app, enabled, flags, commands, air, radio, decided_by>>

JoinSucceeds ==
  /\ app = "listen"
  /\ queue # <<>> /\ Succeeds(Head(queue).what)
  /\ decided_by' = Head(queue).attempt
  /\ Unsubscribe
  /\ app' = "joined"
  /\ UNCHANGED <<flags, commands, air, radio>>

JoinFails ==
  /\ app = "listen"
  /\ queue # <<>> /\ Fails(Head(queue).what)
  /\ decided_by' = Head(queue).attempt
  /\ Unsubscribe
  /\ app' = "pause"
  /\ UNCHANGED <<flags, commands, air, radio>>

(* While the LED is written, nobody reads the event queue. *)
FlashLed ==
  /\ app = "listen" /\ queue = <<>>
  /\ app' = "flash"
  /\ UNCHANGED <<channel, flags, commands, air, radio, decided_by>>

LedWritten ==
  /\ app = "flash"
  /\ app' = "listen"
  /\ UNCHANGED <<channel, flags, commands, air, radio, decided_by>>

(* What dropping the join leaves of its request: taken back while it is    *)
(* pending, under way once it is sent.                                     *)
Abandoned == {commands, <<>>}

(* Faulty: the radio is not told to leave. *)
BadJoinTimesOut ==
  /\ app \in Joining
  /\ Unsubscribe
  /\ commands' \in Abandoned
  /\ app' = "pause"
  /\ UNCHANGED <<flags, air, radio, decided_by>>

JoinTimesOut ==
  /\ app \in Joining
  /\ Unsubscribe
  /\ \E left \in Abandoned : commands' = Append(left, "Disassoc")
  /\ app' = "leave"
  /\ UNCHANGED <<flags, air, radio, decided_by>>

(* Five seconds: the radio has said by then what it had to say about an    *)
(* attempt that failed.                                                    *)
PauseEnds ==
  /\ app = "pause"
  /\ script = <<>>
  /\ app' = "begin"
  /\ UNCHANGED <<channel, flags, commands, air, radio, decided_by>>

-----------------------------------------------------------------------------
(* The rest of connect_wifi, and the retry loop that calls it again.       *)

(* Faulty: an address left from before the link was lost is not waited for.*)
BadLinkIsUp ==
  /\ app \in {"joined", "link_wait"}
  /\ link
  /\ app' = "online"
  /\ UNCHANGED <<channel, flags, commands, air, radio, decided_by>>

LinkIsUp ==
  /\ app \in {"joined", "link_wait"}
  /\ link
  /\ app' = "dhcp"
  /\ UNCHANGED <<channel, flags, commands, air, radio, decided_by>>

LinkIsDown ==
  /\ app = "joined"
  /\ ~ link
  /\ app' = "link_wait"
  /\ UNCHANGED <<channel, flags, commands, air, radio, decided_by>>

Configured ==
  /\ app = "dhcp"
  /\ config
  /\ app' = "online"
  /\ UNCHANGED <<channel, flags, commands, air, radio, decided_by>>

DhcpTimesOut ==
  /\ app = "dhcp" /\ ~ config
  /\ Request("Disassoc")
  /\ app' = "leave"
  /\ UNCHANGED <<channel, flags, air, radio, decided_by>>

Rejoin ==
  /\ app = "online"
  /\ ~ link \/ ~ config
  /\ Request("Disassoc")
  /\ app' = "leave_first"
  /\ UNCHANGED <<channel, flags, air, radio, decided_by>>

(* The network stack, as connect_wifi uses it. *)
Lease ==
  /\ link /\ ~ config
  /\ config' = TRUE
  /\ UNCHANGED <<app, channel, auth_ok, join_ok, key_exchange_ok, link, commands,
                 air, radio, decided_by>>

LeaseLost ==
  /\ config
  /\ config' = FALSE
  /\ UNCHANGED <<app, channel, auth_ok, join_ok, key_exchange_ok, link, commands,
                 air, radio, decided_by>>

-----------------------------------------------------------------------------
(* The runner.                                                             *)

(* Every event that bears on it recomputes the link, after the flags. *)
UpdateLink ==
  /\ link' = (join_ok' /\ key_exchange_ok')
  /\ config' = (config /\ link')

KeepLink == UNCHANGED <<link, config>>

(* Faulty: the key exchange of the last association counts for the next. *)
BadLinkDown ==
  /\ auth_ok' = FALSE /\ join_ok' = FALSE
  /\ UNCHANGED key_exchange_ok
  /\ UpdateLink

LinkDown ==
  /\ auth_ok' = FALSE /\ join_ok' = FALSE /\ key_exchange_ok' = FALSE
  /\ UpdateLink

Authenticated(ok) ==
  /\ auth_ok' = ok
  /\ UNCHANGED <<join_ok, key_exchange_ok>>
  /\ KeepLink

JoinEvent ==
  /\ join_ok' = TRUE
  /\ UNCHANGED <<auth_ok, key_exchange_ok>>
  /\ UpdateLink

KeyExchange(ok) ==
  /\ UNCHANGED <<auth_ok, join_ok>>
  /\ IF ok /\ ~ auth_ok
       THEN UNCHANGED key_exchange_ok /\ KeepLink
       ELSE key_exchange_ok' = ok /\ UpdateLink

UpdateFlags(what) ==
  \/ what = "LINK_DOWN" /\ LinkDown
  \/ what \in {"AUTH", "AUTH_FAIL"} /\ Authenticated(what = "AUTH")
  \/ what = "JOIN" /\ JoinEvent
  \/ what \in {"PSK_SUP", "PSK_SUP_ABORT", "PSK_SUP_FAIL"} /\ KeyExchange(what = "PSK_SUP")
  \/ what \in {"SET_SSID", "SET_SSID_FAIL", "NO_NETWORKS"} /\ UNCHANGED flags

Wanted(what) == what \notin {"LINK_DOWN", "JOIN"}

(* Faulty: a full queue refuses the new message; or it grows. *)
BadPublished(message) == IF Len(queue) = QueueSize THEN queue ELSE Append(queue, message)

BadUnbounded(message) == Append(queue, message)

(* publish_immediate makes room by giving up the oldest message. *)
Published(message) ==
  Append(IF Len(queue) = QueueSize THEN Tail(queue) ELSE queue, message)

Commands == {"Configure", "SetSsid", "Disassoc"}

ReceiveEvent ==
  /\ air # <<>> /\ Head(air).what \notin Commands
  /\ air' = Tail(air)
  /\ UpdateFlags(Head(air).what)
  /\ queue' = IF enabled /\ Wanted(Head(air).what) THEN Published(Head(air)) ELSE queue
  /\ UNCHANGED <<app, enabled, commands, radio, decided_by>>

(* An answer nobody waits for any more is dropped. *)
ReceiveAnswer ==
  /\ air # <<>> /\ Head(air).what \in Commands
  /\ air' = Tail(air)
  /\ \/ /\ app = "prepare" /\ Head(air).what = "Configure"
        /\ Subscribe
        /\ Request("SetSsid")
        /\ app' = "set_ssid"
     \/ /\ app = "set_ssid" /\ Head(air).what = "SetSsid"
        /\ app' = "listen"
        /\ UNCHANGED <<channel, commands>>
     \/ /\ app = "leave" /\ Head(air).what = "Disassoc"
        /\ app' = "pause"
        /\ UNCHANGED <<channel, commands>>
     \/ /\ app = "leave_first" /\ Head(air).what = "Disassoc"
        /\ app' = "begin"
        /\ UNCHANGED <<channel, commands>>
     \/ /\ <<app, Head(air).what>> \notin
             {<<"prepare", "Configure">>, <<"set_ssid", "SetSsid">>,
              <<"leave", "Disassoc">>, <<"leave_first", "Disassoc">>}
        /\ UNCHANGED <<app, channel, commands>>
  /\ UNCHANGED <<flags, radio, decided_by>>

-----------------------------------------------------------------------------
(* The radio.                                                              *)

Take(command) == commands # <<>> /\ Head(commands) = command /\ commands' = Tail(commands)

RadioConfigures ==
  /\ Take("Configure")
  /\ air' = Append(air, AnswerTo("Configure"))
  /\ UNCHANGED <<app, channel, flags, radio, decided_by>>

RadioJoins(scripts) ==
  /\ Take("SetSsid")
  /\ script' \in scripts
  /\ complete' = FALSE
  /\ attempt' = attempt + 1
  /\ air' = Append(air, AnswerTo("SetSsid"))
  /\ UNCHANGED <<app, channel, flags, associated, keyed, decided_by>>

(* The answer and the event about it come in either order. *)
RadioLeaves ==
  /\ Take("Disassoc")
  /\ script' = <<>>
  /\ associated' = FALSE /\ keyed' = FALSE
  /\ \E down \in {IF associated THEN <<Event("LINK_DOWN", attempt)>> ELSE <<>>} :
       air' \in {air \o down \o <<AnswerTo("Disassoc")>>, air \o <<AnswerTo("Disassoc")>> \o down}
  /\ UNCHANGED <<app, channel, flags, complete, attempt, decided_by>>

RadioReports ==
  /\ script # <<>>
  /\ script' = Tail(script)
  /\ complete' = (Tail(script) = <<>>)
  /\ air' = Append(air, Event(Head(script), attempt))
  /\ associated' = CASE Head(script) = "JOIN" -> TRUE
                     [] Head(script) = "LINK_DOWN" -> FALSE
                     [] OTHER -> associated
  /\ keyed' = (keyed \/ Head(script) = "PSK_SUP")
  /\ UNCHANGED <<app, channel, flags, commands, attempt, decided_by>>

(* The access point goes away, in the middle of an attempt or later. *)
RadioLosesLink ==
  /\ associated
  /\ associated' = FALSE /\ keyed' = FALSE
  /\ script' = <<>>
  /\ air' = Append(air, Event("LINK_DOWN", attempt))
  /\ UNCHANGED <<app, channel, flags, commands, complete, attempt, decided_by>>

-----------------------------------------------------------------------------
Driver ==
  \/ CallConnect \/ BeginJoin \/ Hear \/ JoinSucceeds \/ JoinFails \/ FlashLed \/ LedWritten
  \/ JoinTimesOut \/ PauseEnds \/ LinkIsUp \/ LinkIsDown \/ Configured
  \/ DhcpTimesOut \/ Rejoin \/ ReceiveEvent \/ ReceiveAnswer

Environment ==
  \/ Lease \/ LeaseLost
  \/ RadioConfigures \/ RadioJoins(Successes \cup Failures)
  \/ RadioLeaves \/ RadioReports \/ RadioLosesLink

Next == Driver \/ Environment \/ BudgetExpires

Spec == Init /\ [][Next]_vars

-----------------------------------------------------------------------------
(* Correctness.                                                            *)

Whats == {"AUTH", "AUTH_FAIL", "JOIN", "SET_SSID", "SET_SSID_FAIL", "NO_NETWORKS",
          "PSK_SUP", "PSK_SUP_ABORT", "PSK_SUP_FAIL", "LINK_DOWN"}

Messages == [what : Whats \cup Commands, attempt : 0 .. MaxAttempts]

TypeOK ==
  /\ app \in Phases
  /\ enabled \in BOOLEAN
  /\ queue \in Seq(Messages) /\ Len(queue) <= QueueSize
  /\ {auth_ok, join_ok, key_exchange_ok, link, config} \subseteq BOOLEAN
  /\ commands \in Seq(Commands)
  /\ air \in Seq(Messages)
  /\ script \in Seq(Whats) /\ complete \in BOOLEAN
  /\ associated \in BOOLEAN /\ keyed \in BOOLEAN
  /\ attempt \in 0 .. MaxAttempts /\ decided_by \in 0 .. MaxAttempts

(* A join is decided by an event of its own attempt, although events are   *)
(* not marked and attempts are dropped at any moment.                      *)
DecidedByOwnAttempt == [][JoinSucceeds \/ JoinFails => decided_by' = attempt]_vars

(* The outcome is not among the messages a full queue gives up while the   *)
(* LED is written: once an attempt is complete and read, a join that still *)
(* listens finds a message that decides it.                                *)
OutcomeHeard ==
  app \in {"listen", "flash"} /\ complete /\ air = <<>>
    => \E i \in 1 .. Len(queue) : Succeeds(queue[i].what) \/ Fails(queue[i].what)

(* With every event read, the driver's link state is the radio's, whatever *)
(* became of the attempts before.                                          *)
LinkIsTrue == air = <<>> => link = (associated /\ keyed)

-----------------------------------------------------------------------------
(* connect_wifi as the cycle that calls it sees it.                        *)

ConnectPhase ==
  CASE app = "start" -> "idle"
    [] app \in {"online", "leave_first"} -> "returned"
    [] app \in Joining \cup {"begin", "joined"} -> "joining"
    [] app = "link_wait" -> "link"
    [] app = "dhcp" -> "dhcp"
    [] app = "leave" -> "leaving"
    [] app = "pause" -> "pausing"

Abstract == INSTANCE ConnectWifi WITH wifi <- ConnectPhase

(* What the radio, the runner and the event queue do to connect_wifi is    *)
(* what UploadCycle takes it to do: no round ends but by a timeout or an   *)
(* outcome, each failed one is left and paused for, and it returns only    *)
(* from a configured network.                                              *)
ImplementsConnectWifi == Abstract!Spec
=============================================================================

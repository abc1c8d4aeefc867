--------------------------- MODULE WifiJoinProofs ---------------------------
(***************************************************************************)
(* Proofs about WifiJoin, for every number of attempts and every event     *)
(* queue of two or more.  Three stories make the invariant: which command  *)
(* is under way while connect_wifi is where it is (AnswersInv), that the   *)
(* radio rests before it is told to join again (RestInv, ScriptInv), and   *)
(* what the runner's flags come to once it has read what is in the air     *)
(* (FlagsInv).  What a listener hears follows from the first two           *)
(* (ListenInv).                                                            *)
(***************************************************************************)
EXTENDS WifiJoin, TLAPS

(* The radio after an attempt, and after one that failed. *)
Quiet == script = <<>> /\ ~ associated /\ ~ keyed

Failed ==
  /\ ~ keyed
  /\ \/ script \in {<<>>, <<"SET_SSID_FAIL">>} /\ ~ associated
     \/ script = <<"LINK_DOWN">> /\ associated

(* What is left of an attempt before the radio is associated, and after.   *)
Unjoined ==
  Successes \cup Failures \cup
  { <<"JOIN", "SET_SSID", "PSK_SUP">>, <<"JOIN", "PSK_SUP", "SET_SSID">>,
    <<"JOIN", "PSK_SUP_ABORT", "SET_SSID", "PSK_SUP">>,
    <<"JOIN", "SET_SSID", "PSK_SUP_FAIL", "LINK_DOWN">>, <<"SET_SSID_FAIL">> }

Joined ==
  { <<"SET_SSID", "PSK_SUP">>, <<"PSK_SUP">>, <<"PSK_SUP", "SET_SSID">>, <<"SET_SSID">>,
    <<"PSK_SUP_ABORT", "SET_SSID", "PSK_SUP">>,
    <<"SET_SSID", "PSK_SUP_FAIL", "LINK_DOWN">>, <<"PSK_SUP_FAIL", "LINK_DOWN">>,
    <<"LINK_DOWN">> }

ScriptInv ==
  /\ script \in {<<>>} \cup Unjoined \cup Joined
  /\ script \in Unjoined => ~ associated
  /\ script \in Joined => associated
  /\ keyed => associated /\ script \in {<<>>, <<"SET_SSID">>}

-----------------------------------------------------------------------------
(* What is under way.                                                      *)

NoAnswer(events) == \A i \in 1 .. Len(events) : events[i].what \notin Commands

(* The one answer among them is to this command. *)
OneAnswer(events, command) ==
  \E i \in 1 .. Len(events) :
    /\ events[i].what = command
    /\ \A j \in 1 .. Len(events) : j # i => events[j].what \notin Commands

(* An answer to an abandoned command is before the one that is awaited. *)
LastAnswer(events, command) ==
  \E i \in 1 .. Len(events) :
    /\ events[i].what = command
    /\ \A j \in 1 .. Len(events) : j # i => events[j].what # command
    /\ \A j \in i + 1 .. Len(events) : events[j].what \notin Commands

(* Whatever is answered, it is not this command. *)
NotAnswered(events, command) == \A i \in 1 .. Len(events) : events[i].what # command

Outstanding(command) ==
  \/ commands = <<command>> /\ NoAnswer(air)
  \/ commands = <<>> /\ OneAnswer(air, command)

(* Told to join, and not yet about it. *)
Told == app = "set_ssid" /\ commands # <<>>

Listening == app \in {"listen", "flash"} \/ (app = "set_ssid" /\ commands = <<>>)

AnswersInv ==
  /\ app = "prepare" => Outstanding("Configure")
  /\ app = "prepare" /\ commands = <<>> => air[Len(air)].what \in Commands
  /\ Told => commands = <<"SetSsid">> /\ air = <<>>
  /\ app = "set_ssid" /\ ~ Told =>
       /\ air # <<>> /\ air[1].what = "SetSsid"
       /\ \A i \in 2 .. Len(air) : air[i].what \notin Commands
  /\ app = "leave" =>
       \/ /\ commands \in {<<"Configure", "Disassoc">>, <<"SetSsid", "Disassoc">>}
          /\ NoAnswer(air)
       \/ /\ commands = <<"Disassoc">>
          /\ NotAnswered(air, "Disassoc")
       \/ commands = <<>> /\ LastAnswer(air, "Disassoc")
  /\ app = "leave_first" => Outstanding("Disassoc")
  /\ app \notin {"prepare", "set_ssid", "leave", "leave_first"} => commands = <<>> /\ NoAnswer(air)

(* The radio rests until it is told to join, and after it was told to      *)
(* leave; an attempt that failed leaves nothing behind.                    *)
RestInv ==
  /\ \/ app \in {"start", "begin", "prepare"} \/ Told
     \/ app = "leave" /\ Len(commands) = 2
     \/ app \in {"leave", "leave_first"} /\ commands = <<>>
     => Quiet
  /\ \/ app = "prepare" \/ Told
     \/ app = "leave" /\ Len(commands) = 2
     => attempt < MaxAttempts
  /\ app = "pause" => Failed

-----------------------------------------------------------------------------
(* What the flags come to.                                                *)

(* A flag after the first n events of a sequence, which set it, clear it   *)
(* or leave it.                                                            *)
FlagAfter(events, n, flag, sets, clears) ==
  \/ \E i \in 1 .. n : /\ events[i].what \in sets
                       /\ \A j \in i + 1 .. n : events[j].what \notin clears
  \/ flag /\ \A j \in 1 .. n : events[j].what \notin clears

AuthClears == {"AUTH_FAIL", "LINK_DOWN"}
KeyClears  == {"PSK_SUP_ABORT", "PSK_SUP_FAIL", "LINK_DOWN"}

AuthAfter(events, n) == FlagAfter(events, n, auth_ok, {"AUTH"}, AuthClears)
JoinAfter(events, n) == FlagAfter(events, n, join_ok, {"JOIN"}, {"LINK_DOWN"})
KeyAfter(events, n)  == FlagAfter(events, n, key_exchange_ok, {"PSK_SUP"}, KeyClears)

(* What is left of an attempt that will exchange keys and has told the     *)
(* runner that it is authenticated.                                        *)
Authenticating ==
  { <<"JOIN", "SET_SSID", "PSK_SUP">>, <<"JOIN", "PSK_SUP", "SET_SSID">>,
    <<"JOIN", "PSK_SUP_ABORT", "SET_SSID", "PSK_SUP">>,
    <<"SET_SSID", "PSK_SUP">>, <<"PSK_SUP">>, <<"PSK_SUP", "SET_SSID">>,
    <<"PSK_SUP_ABORT", "SET_SSID", "PSK_SUP">> }

(* The runner hears of keys only once it is authenticated. *)
KeysFollowAuth(events) ==
  \A i \in 1 .. Len(events) : events[i].what = "PSK_SUP" => AuthAfter(events, i - 1)

FlagsInv ==
  /\ link <=> join_ok /\ key_exchange_ok
  /\ JoinAfter(air, Len(air)) <=> associated
  /\ KeyAfter(air, Len(air)) <=> keyed
  /\ script \in Authenticating => AuthAfter(air, Len(air))
  /\ KeysFollowAuth(air)

-----------------------------------------------------------------------------
(* What a listener hears.                                                  *)

Decides(m) == Succeeds(m.what) \/ Fails(m.what)

(* The message that decides is the last that goes to the queue, or the     *)
(* last but one.                                                           *)
DecidesLast(heard, events) ==
  \/ \E i \in 1 .. Len(events) :
       Decides(events[i]) /\ \A j \in i + 1 .. Len(events) : ~ Wanted(events[j].what)
  \/ /\ heard # <<>> /\ Decides(heard[Len(heard)])
     /\ \A j \in 1 .. Len(events) : ~ Wanted(events[j].what)

DecidesLastButOne(heard, events) ==
  \/ \E i, m \in 1 .. Len(events) :
       /\ i < m /\ Decides(events[i])
       /\ \A j \in i + 1 .. Len(events) : j # m => ~ Wanted(events[j].what)
  \/ \E m \in 1 .. Len(events) :
       /\ heard # <<>> /\ Decides(heard[Len(heard)])
       /\ \A j \in 1 .. Len(events) : j # m => ~ Wanted(events[j].what)
  \/ /\ Len(heard) >= 2 /\ Decides(heard[Len(heard) - 1])
     /\ \A j \in 1 .. Len(events) : ~ Wanted(events[j].what)

(* All that is heard and in the air is of this attempt, ... *)
OwnEvents ==
  /\ \A i \in 1 .. Len(queue) : queue[i].attempt = attempt
  /\ \A i \in 1 .. Len(air) : air[i].what \notin Commands => air[i].attempt = attempt

(* ... a failure among it is one of the radio's, ... *)
OwnFailures ==
  /\ (\E i \in 1 .. Len(queue) : Fails(queue[i].what)) => Failed
  /\ (\E i \in 1 .. Len(air) : Fails(air[i].what)) => Failed

(* ... and what decides is there once the radio has said it. *)
Decided ==
  /\ script \in {<<"SET_SSID">>, <<"LINK_DOWN">>} => DecidesLast(queue, air)
  /\ complete => DecidesLast(queue, air) \/ DecidesLastButOne(queue, air)

ListenInv ==
  /\ enabled <=> app \in {"set_ssid", "listen", "flash"}
  /\ app \notin {"listen", "flash"} => queue = <<>>
  /\ Listening => OwnEvents /\ OwnFailures /\ Decided

IInv == TypeOK /\ ScriptInv /\ AnswersInv /\ RestInv /\ FlagsInv /\ ListenInv

-----------------------------------------------------------------------------
(* What is left of a script.                                               *)

LEMMA Tails ==
  ASSUME NEW a, NEW b, NEW c, NEW d, NEW e
  PROVE  /\ Tail(<<a>>) = <<>>
         /\ Tail(<<a, b>>) = <<b>>
         /\ Tail(<<a, b, c>>) = <<b, c>>
         /\ Tail(<<a, b, c, d>>) = <<b, c, d>>
         /\ Tail(<<a, b, c, d, e>>) = <<b, c, d, e>>
OBVIOUS

LEMMA Kinds ==
  /\ <<>> \notin Unjoined /\ <<>> \notin Joined /\ <<>> \notin Authenticating
  /\ <<"SET_SSID">> \in Joined /\ <<"SET_SSID">> \notin Authenticating
  /\ <<"LINK_DOWN">> \in Joined /\ <<"LINK_DOWN">> \notin Authenticating
  /\ <<"SET_SSID_FAIL">> \in Unjoined /\ <<"SET_SSID_FAIL">> \notin Authenticating
  /\ <<"SET_SSID_FAIL">> \notin {<<"SET_SSID">>, <<"LINK_DOWN">>, <<>>}
  /\ <<"LINK_DOWN">> # <<"SET_SSID">> /\ <<"LINK_DOWN">> # <<>> /\ <<"SET_SSID">> # <<>>
  /\ \A s \in Unjoined : s \notin Joined
  /\ Successes \cup Failures \subseteq Unjoined
  /\ \A s \in Successes \cup Failures : s \notin Authenticating
<1> USE DEF Unjoined, Joined, Authenticating, Successes, Failures
<1>1. /\ <<>> \notin Unjoined /\ <<>> \notin Joined /\ <<>> \notin Authenticating
      /\ <<"SET_SSID">> \in Joined /\ <<"SET_SSID">> \notin Authenticating
      /\ <<"LINK_DOWN">> \in Joined /\ <<"LINK_DOWN">> \notin Authenticating
      /\ <<"SET_SSID_FAIL">> \in Unjoined /\ <<"SET_SSID_FAIL">> \notin Authenticating
  OBVIOUS
<1>2. /\ <<"SET_SSID_FAIL">> \notin {<<"SET_SSID">>, <<"LINK_DOWN">>, <<>>}
      /\ <<"LINK_DOWN">> # <<"SET_SSID">> /\ <<"LINK_DOWN">> # <<>> /\ <<"SET_SSID">> # <<>>
  OBVIOUS
<1>3. \A s \in Unjoined : s \notin Joined
  OBVIOUS
<1>4. Successes \cup Failures \subseteq Unjoined
  OBVIOUS
<1>5. \A s \in Successes \cup Failures : s \notin Authenticating
  OBVIOUS
<1> QED
  BY <1>1, <1>2, <1>3, <1>4, <1>5

LEMMA ScriptType ==
  ASSUME NEW s \in Successes \cup Failures
  PROVE  s \in Seq(Whats)
<1>1. <<"AUTH", "JOIN", "SET_SSID", "PSK_SUP">> \in Seq(Whats)
  BY DEF Whats
<1>2. <<"AUTH", "JOIN", "PSK_SUP", "SET_SSID">> \in Seq(Whats)
  BY DEF Whats
<1>3. <<"AUTH", "JOIN", "PSK_SUP_ABORT", "SET_SSID", "PSK_SUP">> \in Seq(Whats)
  BY DEF Whats
<1>4. <<"NO_NETWORKS">> \in Seq(Whats)
  BY DEF Whats
<1>5. <<"AUTH_FAIL", "SET_SSID_FAIL">> \in Seq(Whats)
  BY DEF Whats
<1>6. <<"AUTH", "JOIN", "SET_SSID", "PSK_SUP_FAIL", "LINK_DOWN">> \in Seq(Whats)
  BY DEF Whats
<1> QED
  BY <1>1, <1>2, <1>3, <1>4, <1>5, <1>6 DEF Successes, Failures

(* How a script goes on: the next event, and what is left after it.        *)
GoesOn(s, what, rest) ==
  \/ s \in Unjoined /\ what = "AUTH" /\ rest \in Unjoined \ {<<"SET_SSID_FAIL">>}
  \/ s \in Unjoined /\ what = "JOIN" /\ rest \in Joined \ {<<"SET_SSID">>, <<"LINK_DOWN">>}
       /\ (rest \in Authenticating => s \in Authenticating)
  \/ s \in Joined /\ what \in {"SET_SSID", "PSK_SUP_ABORT"}
       /\ rest \in Joined \ {<<"SET_SSID">>, <<"LINK_DOWN">>}
       /\ (rest \in Authenticating => s \in Authenticating)
  \/ s \in Joined /\ s \in Authenticating /\ what = "PSK_SUP" /\ rest \in {<<>>, <<"SET_SSID">>}
  \/ s = <<"SET_SSID">> /\ what = "SET_SSID" /\ rest = <<>>
  \/ s \in Joined /\ s # <<"SET_SSID">> /\ what = "PSK_SUP_FAIL" /\ rest = <<"LINK_DOWN">>
  \/ s = <<"LINK_DOWN">> /\ what = "LINK_DOWN" /\ rest = <<>>
  \/ s \in Unjoined /\ what = "NO_NETWORKS" /\ rest = <<>>
  \/ s \in Unjoined /\ what = "AUTH_FAIL" /\ rest = <<"SET_SSID_FAIL">>
  \/ s \in Unjoined /\ what = "SET_SSID_FAIL" /\ rest = <<>>

LEMMA ScriptGoesOn ==
  ASSUME NEW s \in Unjoined \cup Joined
  PROVE  GoesOn(s, Head(s), Tail(s))
<1>1. CASE s = <<"AUTH", "JOIN", "SET_SSID", "PSK_SUP">>
  <2>1. Head(s) = "AUTH" /\ Tail(s) = <<"JOIN", "SET_SSID", "PSK_SUP">>
    BY <1>1, Tails
  <2> QED
    BY <1>1, <2>1 DEF GoesOn, Unjoined, Joined, Authenticating, Successes, Failures
<1>2. CASE s = <<"AUTH", "JOIN", "PSK_SUP", "SET_SSID">>
  <2>1. Head(s) = "AUTH" /\ Tail(s) = <<"JOIN", "PSK_SUP", "SET_SSID">>
    BY <1>2, Tails
  <2> QED
    BY <1>2, <2>1 DEF GoesOn, Unjoined, Joined, Authenticating, Successes, Failures
<1>3. CASE s = <<"AUTH", "JOIN", "PSK_SUP_ABORT", "SET_SSID", "PSK_SUP">>
  <2>1. Head(s) = "AUTH" /\ Tail(s) = <<"JOIN", "PSK_SUP_ABORT", "SET_SSID", "PSK_SUP">>
    BY <1>3, Tails
  <2> QED
    BY <1>3, <2>1 DEF GoesOn, Unjoined, Joined, Authenticating, Successes, Failures
<1>4. CASE s = <<"NO_NETWORKS">>
  <2>1. Head(s) = "NO_NETWORKS" /\ Tail(s) = <<>>
    BY <1>4, Tails
  <2> QED
    BY <1>4, <2>1 DEF GoesOn, Unjoined, Joined, Authenticating, Successes, Failures
<1>5. CASE s = <<"AUTH_FAIL", "SET_SSID_FAIL">>
  <2>1. Head(s) = "AUTH_FAIL" /\ Tail(s) = <<"SET_SSID_FAIL">>
    BY <1>5, Tails
  <2> QED
    BY <1>5, <2>1 DEF GoesOn, Unjoined, Joined, Authenticating, Successes, Failures
<1>6. CASE s = <<"AUTH", "JOIN", "SET_SSID", "PSK_SUP_FAIL", "LINK_DOWN">>
  <2>1. Head(s) = "AUTH" /\ Tail(s) = <<"JOIN", "SET_SSID", "PSK_SUP_FAIL", "LINK_DOWN">>
    BY <1>6, Tails
  <2> QED
    BY <1>6, <2>1 DEF GoesOn, Unjoined, Joined, Authenticating, Successes, Failures
<1>7. CASE s = <<"JOIN", "SET_SSID", "PSK_SUP">>
  <2>1. Head(s) = "JOIN" /\ Tail(s) = <<"SET_SSID", "PSK_SUP">>
    BY <1>7, Tails
  <2> QED
    BY <1>7, <2>1 DEF GoesOn, Unjoined, Joined, Authenticating, Successes, Failures
<1>8. CASE s = <<"JOIN", "PSK_SUP", "SET_SSID">>
  <2>1. Head(s) = "JOIN" /\ Tail(s) = <<"PSK_SUP", "SET_SSID">>
    BY <1>8, Tails
  <2> QED
    BY <1>8, <2>1 DEF GoesOn, Unjoined, Joined, Authenticating, Successes, Failures
<1>9. CASE s = <<"JOIN", "PSK_SUP_ABORT", "SET_SSID", "PSK_SUP">>
  <2>1. Head(s) = "JOIN" /\ Tail(s) = <<"PSK_SUP_ABORT", "SET_SSID", "PSK_SUP">>
    BY <1>9, Tails
  <2> QED
    BY <1>9, <2>1 DEF GoesOn, Unjoined, Joined, Authenticating, Successes, Failures
<1>10. CASE s = <<"JOIN", "SET_SSID", "PSK_SUP_FAIL", "LINK_DOWN">>
  <2>1. Head(s) = "JOIN" /\ Tail(s) = <<"SET_SSID", "PSK_SUP_FAIL", "LINK_DOWN">>
    BY <1>10, Tails
  <2> QED
    BY <1>10, <2>1 DEF GoesOn, Unjoined, Joined, Authenticating, Successes, Failures
<1>11. CASE s = <<"SET_SSID_FAIL">>
  <2>1. Head(s) = "SET_SSID_FAIL" /\ Tail(s) = <<>>
    BY <1>11, Tails
  <2> QED
    BY <1>11, <2>1 DEF GoesOn, Unjoined, Joined, Authenticating, Successes, Failures
<1>12. CASE s = <<"SET_SSID", "PSK_SUP">>
  <2>1. Head(s) = "SET_SSID" /\ Tail(s) = <<"PSK_SUP">>
    BY <1>12, Tails
  <2> QED
    BY <1>12, <2>1 DEF GoesOn, Unjoined, Joined, Authenticating, Successes, Failures
<1>13. CASE s = <<"PSK_SUP">>
  <2>1. Head(s) = "PSK_SUP" /\ Tail(s) = <<>>
    BY <1>13, Tails
  <2> QED
    BY <1>13, <2>1 DEF GoesOn, Unjoined, Joined, Authenticating, Successes, Failures
<1>14. CASE s = <<"PSK_SUP", "SET_SSID">>
  <2>1. Head(s) = "PSK_SUP" /\ Tail(s) = <<"SET_SSID">>
    BY <1>14, Tails
  <2> QED
    BY <1>14, <2>1 DEF GoesOn, Unjoined, Joined, Authenticating, Successes, Failures
<1>15. CASE s = <<"SET_SSID">>
  <2>1. Head(s) = "SET_SSID" /\ Tail(s) = <<>>
    BY <1>15, Tails
  <2> QED
    BY <1>15, <2>1 DEF GoesOn, Unjoined, Joined, Authenticating, Successes, Failures
<1>16. CASE s = <<"PSK_SUP_ABORT", "SET_SSID", "PSK_SUP">>
  <2>1. Head(s) = "PSK_SUP_ABORT" /\ Tail(s) = <<"SET_SSID", "PSK_SUP">>
    BY <1>16, Tails
  <2> QED
    BY <1>16, <2>1 DEF GoesOn, Unjoined, Joined, Authenticating, Successes, Failures
<1>17. CASE s = <<"SET_SSID", "PSK_SUP_FAIL", "LINK_DOWN">>
  <2>1. Head(s) = "SET_SSID" /\ Tail(s) = <<"PSK_SUP_FAIL", "LINK_DOWN">>
    BY <1>17, Tails
  <2> QED
    BY <1>17, <2>1 DEF GoesOn, Unjoined, Joined, Authenticating, Successes, Failures
<1>18. CASE s = <<"PSK_SUP_FAIL", "LINK_DOWN">>
  <2>1. Head(s) = "PSK_SUP_FAIL" /\ Tail(s) = <<"LINK_DOWN">>
    BY <1>18, Tails
  <2> QED
    BY <1>18, <2>1 DEF GoesOn, Unjoined, Joined, Authenticating, Successes, Failures
<1>19. CASE s = <<"LINK_DOWN">>
  <2>1. Head(s) = "LINK_DOWN" /\ Tail(s) = <<>>
    BY <1>19, Tails
  <2> QED
    BY <1>19, <2>1 DEF GoesOn, Unjoined, Joined, Authenticating, Successes, Failures
<1> QED
  BY <1>1, <1>2, <1>3, <1>4, <1>5, <1>6, <1>7, <1>8, <1>9, <1>10,
     <1>11, <1>12, <1>13, <1>14, <1>15, <1>16, <1>17, <1>18, <1>19 DEF Unjoined, Joined, Successes, Failures

-----------------------------------------------------------------------------
(* What an event at either end of the air does to a flag.                  *)

LEMMA Appended ==
  ASSUME NEW S, NEW s \in Seq(S), NEW e \in S
  PROVE  /\ Append(s, e) \in Seq(S) /\ Len(Append(s, e)) = Len(s) + 1 /\ Append(s, e) # <<>>
         /\ \A i \in 1 .. Len(s) : Append(s, e)[i] = s[i]
         /\ Append(s, e)[Len(s) + 1] = e
OBVIOUS

LEMMA Taken ==
  ASSUME NEW S, NEW s \in Seq(S), s # <<>>
  PROVE  /\ Tail(s) \in Seq(S) /\ Len(Tail(s)) = Len(s) - 1 /\ Len(s) \in Nat \ {0}
         /\ \A i \in 1 .. Len(s) - 1 : Tail(s)[i] = s[i + 1]
         /\ Head(s) = s[1] /\ Head(s) \in S
OBVIOUS

LEMMA NoneLeft ==
  ASSUME NEW S, NEW s \in Seq(S), Len(s) = 0
  PROVE  s = <<>>
OBVIOUS

(* A flag after one event. *)
Updated(flag, what, sets, clears) == what \in sets \/ (flag /\ what \notin clears)

LEMMA FlagAppended ==
  ASSUME NEW S, NEW s \in Seq(S), NEW e \in S, NEW flag, NEW sets, NEW clears
  PROVE  /\ \A n \in 0 .. Len(s) :
              FlagAfter(Append(s, e), n, flag, sets, clears)
                <=> FlagAfter(s, n, flag, sets, clears)
         /\ FlagAfter(Append(s, e), Len(s) + 1, flag, sets, clears)
              <=> Updated(FlagAfter(s, Len(s), flag, sets, clears), e.what, sets, clears)
<1> DEFINE t == Append(s, e)
<1>1. /\ \A i \in 1 .. Len(s) : t[i] = s[i]
      /\ t[Len(s) + 1] = e /\ Len(s) \in Nat
  BY Appended
<1> HIDE DEF t
<1>2. ASSUME NEW n \in 0 .. Len(s)
      PROVE  FlagAfter(t, n, flag, sets, clears) <=> FlagAfter(s, n, flag, sets, clears)
  <2>1. \A i \in 1 .. n : t[i] = s[i] /\ \A j \in i + 1 .. n : t[j] = s[j]
    BY <1>1
  <2>2. \A j \in 1 .. n : t[j] = s[j]
    BY <1>1
  <2> QED
    BY <2>1, <2>2 DEF FlagAfter
<1>3. ASSUME NEW i \in 1 .. Len(s)
      PROVE  (\A j \in i + 1 .. Len(s) + 1 : t[j].what \notin clears)
               <=> (e.what \notin clears /\ \A j \in i + 1 .. Len(s) : s[j].what \notin clears)
  <2>1. i + 1 .. Len(s) + 1 = (i + 1 .. Len(s)) \cup {Len(s) + 1}
    BY <1>1
  <2> QED
    BY <1>1, <2>1
<1>4. (\A j \in 1 .. Len(s) + 1 : t[j].what \notin clears)
        <=> (e.what \notin clears /\ \A j \in 1 .. Len(s) : s[j].what \notin clears)
  <2>1. 1 .. Len(s) + 1 = (1 .. Len(s)) \cup {Len(s) + 1}
    BY <1>1
  <2> QED
    BY <1>1, <2>1
<1>5. FlagAfter(t, Len(s) + 1, flag, sets, clears)
        <=> Updated(FlagAfter(s, Len(s), flag, sets, clears), e.what, sets, clears)
  <2>1. 1 .. Len(s) + 1 = (1 .. Len(s)) \cup {Len(s) + 1} /\ Len(s) + 2 .. Len(s) + 1 = {}
    BY <1>1
  <2>2. (\E i \in 1 .. Len(s) + 1 : /\ t[i].what \in sets
                                    /\ \A j \in i + 1 .. Len(s) + 1 : t[j].what \notin clears)
          <=> \/ e.what \in sets
              \/ /\ e.what \notin clears
                 /\ \E i \in 1 .. Len(s) : /\ s[i].what \in sets
                                           /\ \A j \in i + 1 .. Len(s) : s[j].what \notin clears
    <3>1. \A j \in Len(s) + 1 + 1 .. Len(s) + 1 : FALSE
      BY <1>1
    <3> QED
      BY <1>1, <1>3, <2>1, <3>1
  <2> QED
    BY <1>4, <2>2 DEF FlagAfter, Updated
<1> QED
  BY <1>2, <1>5 DEF t

LEMMA FlagTaken ==
  ASSUME NEW S, NEW s \in Seq(S), s # <<>>, NEW flag, NEW sets, NEW clears,
         NEW n \in 1 .. Len(s)
  PROVE  FlagAfter(s, n, flag, sets, clears)
           <=> FlagAfter(Tail(s), n - 1, Updated(flag, s[1].what, sets, clears), sets, clears)
<1> DEFINE t == Tail(s)
           kept(i) == \A j \in i + 1 .. n : s[j].what \notin clears
           keptInTail(i) == \A j \in i + 1 .. n - 1 : t[j].what \notin clears
           wasSet(i) == s[i].what \in sets
<1>1. /\ \A i \in 1 .. Len(s) - 1 : t[i] = s[i + 1]
      /\ Len(s) \in Nat /\ n \in Nat
  BY Taken
<1> HIDE DEF t
<1>2. ASSUME NEW m \in 0 .. n - 1
      PROVE  keptInTail(m) <=> kept(m + 1)
  <2>1. ASSUME NEW j \in m + 1 + 1 .. n
        PROVE  j - 1 \in m + 1 .. n - 1 /\ t[j - 1] = s[j]
    BY <1>1
  <2>2. ASSUME NEW j \in m + 1 .. n - 1
        PROVE  j + 1 \in m + 1 + 1 .. n /\ t[j] = s[j + 1]
    BY <1>1
  <2> QED
    BY <2>1, <2>2
<1>3. (\A j \in 1 .. n : s[j].what \notin clears) <=> s[1].what \notin clears /\ kept(1)
  BY <1>1
<1>4. \A i \in 1 .. n - 1 : t[i].what \in sets <=> wasSet(i + 1)
  BY <1>1
<1>5. (\A j \in 1 .. n - 1 : t[j].what \notin clears) <=> keptInTail(0)
  OBVIOUS
<1>6. FlagAfter(s, n, flag, sets, clears)
        <=> (\E i \in 1 .. n : wasSet(i) /\ kept(i)) \/ (flag /\ s[1].what \notin clears /\ kept(1))
  BY <1>3 DEF FlagAfter
<1>7. FlagAfter(t, n - 1, Updated(flag, s[1].what, sets, clears), sets, clears)
        <=> \/ \E i \in 1 .. n - 1 : wasSet(i + 1) /\ keptInTail(i)
            \/ (wasSet(1) \/ (flag /\ s[1].what \notin clears)) /\ keptInTail(0)
  BY <1>4, <1>5 DEF FlagAfter, Updated
<1> HIDE DEF kept, keptInTail, wasSet
<1>8. keptInTail(0) <=> kept(1)
  BY <1>1, <1>2
<1>9. (\E i \in 1 .. n - 1 : wasSet(i + 1) /\ keptInTail(i)) <=> (\E i \in 2 .. n : wasSet(i) /\ kept(i))
  <2>1. ASSUME NEW i \in 1 .. n - 1, wasSet(i + 1), keptInTail(i)
        PROVE  i + 1 \in 2 .. n /\ wasSet(i + 1) /\ kept(i + 1)
    BY <1>1, <1>2, <2>1
  <2>2. ASSUME NEW i \in 2 .. n, wasSet(i), kept(i)
        PROVE  i - 1 \in 1 .. n - 1 /\ wasSet(i - 1 + 1) /\ keptInTail(i - 1)
    BY <1>1, <1>2, <2>2
  <2> QED
    BY <2>1, <2>2
<1>10. (\E i \in 1 .. n : wasSet(i) /\ kept(i))
         <=> (wasSet(1) /\ kept(1)) \/ (\E i \in 2 .. n : wasSet(i) /\ kept(i))
  BY <1>1
<1> QED
  BY <1>6, <1>7, <1>8, <1>9, <1>10 DEF t

-----------------------------------------------------------------------------
(* Who asked for what the radio takes, and who waits for what it answers.  *)

LEMMA CommandTaken ==
  ASSUME AnswersInv, commands # <<>>
  PROVE  \/ /\ app = "prepare" /\ NoAnswer(air)
            /\ Head(commands) = "Configure" /\ Tail(commands) = <<>>
         \/ /\ Told /\ air = <<>>
            /\ Head(commands) = "SetSsid" /\ Tail(commands) = <<>>
         \/ /\ app = "leave" /\ NoAnswer(air) /\ Len(commands) = 2
            /\ Head(commands) \in {"Configure", "SetSsid"} /\ Tail(commands) = <<"Disassoc">>
         \/ /\ app = "leave" /\ NotAnswered(air, "Disassoc")
            /\ Head(commands) = "Disassoc" /\ Tail(commands) = <<>>
         \/ /\ app = "leave_first" /\ NoAnswer(air)
            /\ Head(commands) = "Disassoc" /\ Tail(commands) = <<>>
<1>1. /\ app = "prepare" => commands = <<"Configure">> /\ NoAnswer(air)
      /\ app = "leave_first" => commands = <<"Disassoc">> /\ NoAnswer(air)
      /\ app \in {"prepare", "set_ssid", "leave", "leave_first"}
  BY DEF AnswersInv, Outstanding
<1>2. Told => commands = <<"SetSsid">> /\ air = <<>>
  BY DEF AnswersInv
<1>3. app = "leave" =>
        \/ /\ commands \in {<<"Configure", "Disassoc">>, <<"SetSsid", "Disassoc">>}
           /\ NoAnswer(air)
        \/ /\ commands = <<"Disassoc">>
           /\ NotAnswered(air, "Disassoc")
  BY DEF AnswersInv
<1>4. app = "set_ssid" => Told
  BY DEF Told
<1> HIDE DEF NoAnswer, Told
<1>5. /\ Head(<<"Configure">>) = "Configure" /\ Tail(<<"Configure">>) = <<>>
      /\ Head(<<"SetSsid">>) = "SetSsid" /\ Tail(<<"SetSsid">>) = <<>>
      /\ Head(<<"Disassoc">>) = "Disassoc" /\ Tail(<<"Disassoc">>) = <<>>
  OBVIOUS
<1>6. \A c : /\ Head(<<c, "Disassoc">>) = c /\ Tail(<<c, "Disassoc">>) = <<"Disassoc">>
             /\ Len(<<c, "Disassoc">>) = 2
  OBVIOUS
<1>7. CASE app = "leave" /\ commands \in {<<"Configure", "Disassoc">>, <<"SetSsid", "Disassoc">>}
           /\ NoAnswer(air)
  BY <1>6, <1>7
<1>8. CASE /\ app = "leave" /\ commands = <<"Disassoc">>
           /\ NotAnswered(air, "Disassoc")
  BY <1>5, <1>8
<1>9. CASE app = "prepare"
  BY <1>1, <1>5, <1>9
<1>10. CASE app = "leave_first"
  BY <1>1, <1>5, <1>10
<1>11. CASE Told
  BY <1>2, <1>5, <1>11
<1> QED
  BY <1>1, <1>3, <1>4, <1>7, <1>8, <1>9, <1>10, <1>11

LEMMA AnswerRead ==
  ASSUME TypeOK, AnswersInv, air # <<>>, Head(air).what \in Commands
  PROVE  \/ /\ app = "prepare" /\ Head(air).what = "Configure"
            /\ commands = <<>> /\ Tail(air) = <<>>
         \/ /\ app = "set_ssid" /\ ~ Told /\ Head(air).what = "SetSsid"
            /\ \A i \in 1 .. Len(Tail(air)) : Tail(air)[i].what \notin Commands
         \/ /\ app = "leave" /\ Head(air).what = "Disassoc" /\ commands = <<>>
            /\ \A i \in 1 .. Len(Tail(air)) : Tail(air)[i].what \notin Commands
         \/ app = "leave" /\ Head(air).what # "Disassoc"
         \/ /\ app = "leave_first" /\ Head(air).what = "Disassoc" /\ commands = <<>>
            /\ \A i \in 1 .. Len(Tail(air)) : Tail(air)[i].what \notin Commands
<1> DEFINE t == Tail(air)
<1>1. /\ t \in Seq(Messages) /\ Len(t) = Len(air) - 1 /\ Len(air) \in Nat \ {0}
      /\ \A i \in 1 .. Len(air) - 1 : t[i] = air[i + 1]
      /\ Head(air) = air[1] /\ air[1].what \in Commands
  BY Taken DEF TypeOK
<1>2. Len(t) = 0 => t = <<>>
  BY <1>1, NoneLeft
<1> HIDE DEF t
<1>3. ~ NoAnswer(air)
  BY <1>1 DEF NoAnswer
<1>4. app \in {"prepare", "set_ssid", "leave", "leave_first"} /\ ~ Told
  BY <1>3 DEF AnswersInv
<1>5. ASSUME NEW c, OneAnswer(air, c)
      PROVE  air[1].what = c /\ \A i \in 1 .. Len(t) : t[i].what \notin Commands
  <2>1. \A j \in 1 .. Len(air) : j # 1 => air[j].what \notin Commands
    BY <1>1, <1>5 DEF OneAnswer
  <2>2. \A i \in 1 .. Len(t) : i + 1 \in 1 .. Len(air) /\ i + 1 # 1
    BY <1>1
  <2> QED
    BY <1>1, <1>5, <2>1, <2>2 DEF OneAnswer
<1>6. CASE app = "prepare"
  <2>1. commands = <<>> /\ OneAnswer(air, "Configure") /\ air[Len(air)].what \in Commands
    BY <1>3, <1>6 DEF AnswersInv, Outstanding
  <2>2. Len(air) = 1
    BY <1>1, <2>1 DEF OneAnswer
  <2> QED
    BY <1>1, <1>2, <1>5, <1>6, <2>1, <2>2 DEF t
<1>7. CASE app = "set_ssid"
  <2>1. air[1].what = "SetSsid" /\ \A i \in 2 .. Len(air) : air[i].what \notin Commands
    BY <1>4, <1>7 DEF AnswersInv
  <2>2. \A i \in 1 .. Len(t) : i + 1 \in 2 .. Len(air) /\ t[i] = air[i + 1]
    BY <1>1
  <2>3. \A i \in 1 .. Len(t) : t[i].what \notin Commands
    BY <2>1, <2>2
  <2> QED
    BY <1>1, <1>4, <1>7, <2>1, <2>3 DEF t
<1>8. CASE app = "leave" /\ air[1].what = "Disassoc"
  <2>1. commands = <<>> /\ LastAnswer(air, "Disassoc")
    BY <1>1, <1>3, <1>8 DEF AnswersInv, NotAnswered
  <2>2. \A i \in 2 .. Len(air) : air[i].what \notin Commands
    BY <1>1, <1>8, <2>1 DEF LastAnswer
  <2>3. \A i \in 1 .. Len(t) : i + 1 \in 2 .. Len(air) /\ t[i] = air[i + 1]
    BY <1>1
  <2>4. \A i \in 1 .. Len(t) : t[i].what \notin Commands
    BY <2>2, <2>3
  <2> QED
    BY <1>1, <1>8, <2>1, <2>4 DEF t
<1>9. CASE app = "leave_first"
  <2>1. commands = <<>> /\ OneAnswer(air, "Disassoc")
    BY <1>3, <1>9 DEF AnswersInv, Outstanding
  <2> QED
    BY <1>1, <1>5, <1>9, <2>1 DEF t
<1> QED
  BY <1>1, <1>4, <1>6, <1>7, <1>8, <1>9

-----------------------------------------------------------------------------
(* Types.                                                                  *)

LEMMA Nothing ==
  /\ <<>> \in Seq(Messages) /\ <<>> \in Seq(Commands) /\ <<>> \in Seq(Whats)
  /\ Len(<<>>) = 0 /\ Len(<<>>) <= QueueSize
<1>1. \A S : <<>> \in Seq(S) /\ Len(<<>>) = 0
  OBVIOUS
<1> QED
  BY <1>1, JoinAssumption

LEMMA Names ==
  /\ Phases = {"prepare", "set_ssid", "listen", "flash", "start", "begin", "joined", "link_wait",
               "dhcp", "leave", "leave_first", "pause", "online"}
  /\ "Configure" \in Commands /\ "SetSsid" \in Commands /\ "Disassoc" \in Commands
  /\ "LINK_DOWN" \in Whats
BY DEF Phases, Joining, Commands, Whats

(* What all of a cycle's state is created as. *)
LEMMA Created ==
  ASSUME app = "start", enabled = FALSE, queue = <<>>, auth_ok = FALSE, join_ok = FALSE,
         key_exchange_ok = FALSE, link = FALSE, config = FALSE, commands = <<>>, air = <<>>,
         script = <<>>, complete = FALSE, associated = FALSE, keyed = FALSE, attempt = 0,
         decided_by = 0
  PROVE  TypeOK
<1>1. 0 \in 0 .. MaxAttempts
  BY JoinAssumption
<1> QED
  BY <1>1, Nothing, Names DEF TypeOK

LEMMA MessageTypes ==
  ASSUME TypeOK
  PROVE  /\ \A what \in Whats : Event(what, attempt) \in Messages
         /\ \A command \in Commands : AnswerTo(command) \in Messages
BY JoinAssumption DEF TypeOK, Messages, Event, AnswerTo

(* What the radio's leaving puts in the air. *)
LEMMA Leaving ==
  ASSUME TypeOK, RadioLeaves
  PROVE  \/ ~ associated /\ air' = Append(air, AnswerTo("Disassoc"))
         \/ /\ associated
            /\ \/ air' = Append(Append(air, Event("LINK_DOWN", attempt)), AnswerTo("Disassoc"))
               \/ air' = Append(Append(air, AnswerTo("Disassoc")), Event("LINK_DOWN", attempt))
<1> DEFINE answer == AnswerTo("Disassoc")
           down == Event("LINK_DOWN", attempt)
<1>1. air \in Seq(Messages) /\ answer \in Messages /\ down \in Messages
  BY MessageTypes DEF TypeOK, Whats, Commands
<1>2. PICK gone \in {IF associated THEN <<down>> ELSE <<>>} :
        air' \in {air \o gone \o <<answer>>, air \o <<answer>> \o gone}
  BY DEF RadioLeaves
<1> HIDE DEF answer, down
<1>3. /\ air \o <<>> = air /\ air \o <<answer>> = Append(air, answer)
      /\ air \o <<down>> = Append(air, down)
  BY <1>1
<1>4. /\ Append(air, answer) \in Seq(Messages) /\ Append(air, down) \in Seq(Messages)
  BY <1>1
<1>5. /\ Append(air, answer) \o <<>> = Append(air, answer)
      /\ Append(air, answer) \o <<down>> = Append(Append(air, answer), down)
      /\ Append(air, down) \o <<answer>> = Append(Append(air, down), answer)
  BY <1>1, <1>4
<1> QED
  BY <1>2, <1>3, <1>5 DEF answer, down

LEMMA TypeStep ==
  ASSUME TypeOK, RestInv, AnswersInv, Next
  PROVE  TypeOK'
<1> USE JoinAssumption DEF TypeOK
<1>1. ASSUME \/ CallConnect \/ FlashLed \/ LedWritten \/ PauseEnds \/ LinkIsUp \/ LinkIsDown
             \/ Configured
      PROVE  TypeOK'
  BY <1>1 DEF CallConnect, FlashLed, LedWritten, PauseEnds, LinkIsUp, LinkIsDown, Configured,
     channel, flags, radio, Phases, Joining
<1>2. ASSUME BeginJoin \/ DhcpTimesOut \/ Rejoin
      PROVE  TypeOK'
  <2>1. commands' \in Seq(Commands)
    <3>1. \A c \in Commands : Append(commands, c) \in Seq(Commands)
      BY Appended
    <3> QED
      BY <1>2, <3>1, Names DEF BeginJoin, DhcpTimesOut, Rejoin, Request
  <2> QED
    BY <1>2, <2>1 DEF BeginJoin, DhcpTimesOut, Rejoin, channel, flags, radio, Phases, Joining
<1>3. CASE Hear
  <2>1. queue' \in Seq(Messages) /\ Len(queue') <= QueueSize
    BY <1>3, Taken DEF Hear
  <2> QED
    BY <1>3, <2>1 DEF Hear, flags, radio
<1>4. ASSUME JoinSucceeds \/ JoinFails
      PROVE  TypeOK'
  <2>1. Head(queue) \in Messages
    BY <1>4, Taken DEF JoinSucceeds, JoinFails
  <2>2. decided_by' \in 0 .. MaxAttempts
    BY <1>4, <2>1 DEF JoinSucceeds, JoinFails, Messages
  <2> QED
    BY <1>4, <2>2, Names, Nothing DEF JoinSucceeds, JoinFails, Unsubscribe, flags, radio
<1>5. CASE JoinTimesOut
  <2>1. commands' \in Seq(Commands)
    <3>1. PICK left \in {commands, <<>>} : commands' = Append(left, "Disassoc")
      BY <1>5 DEF JoinTimesOut, Abandoned
    <3>2. left \in Seq(Commands)
      BY <3>1, Nothing
    <3> QED
      BY <3>1, <3>2, Names, Appended
  <2> QED
    BY <1>5, <2>1, Names, Nothing DEF JoinTimesOut, Unsubscribe, flags, radio
<1>6. CASE ReceiveEvent
  <2>1. Head(air) \in Messages /\ Tail(air) \in Seq(Messages)
    BY <1>6, Taken DEF ReceiveEvent
  <2>2. {auth_ok', join_ok', key_exchange_ok', link', config'} \subseteq BOOLEAN
    BY <1>6 DEF ReceiveEvent, UpdateFlags, LinkDown, Authenticated, JoinEvent, KeyExchange,
       UpdateLink, KeepLink, flags
  <2>3. Published(Head(air)) \in Seq(Messages) /\ Len(Published(Head(air))) <= QueueSize
    <3>1. CASE Len(queue) = QueueSize
      <4>1. Tail(queue) \in Seq(Messages) /\ Len(Tail(queue)) = QueueSize - 1
        BY <3>1, Taken
      <4> QED
        BY <2>1, <3>1, <4>1, Appended DEF Published
    <3>2. CASE Len(queue) # QueueSize
      BY <2>1, <3>2, Appended DEF Published
    <3> QED
      BY <3>1, <3>2
  <2> QED
    BY <1>6, <2>1, <2>2, <2>3 DEF ReceiveEvent, radio
<1>7. CASE ReceiveAnswer
  <2>1. Tail(air) \in Seq(Messages)
    BY <1>7, Taken DEF ReceiveAnswer
  <2>2. Append(commands, "SetSsid") \in Seq(Commands)
    BY Names, Appended
  <2>3. enabled' \in BOOLEAN /\ queue' \in Seq(Messages) /\ Len(queue') <= QueueSize
    BY <1>7, Nothing DEF ReceiveAnswer, Subscribe, channel
  <2> QED
    BY <1>7, <2>1, <2>2, <2>3, Names DEF ReceiveAnswer, Request, flags, radio
<1>8. ASSUME Lease \/ LeaseLost
      PROVE  TypeOK'
  BY <1>8 DEF Lease, LeaseLost, channel, radio
<1>9. CASE RadioConfigures
  <2>1. commands' \in Seq(Commands) /\ air' \in Seq(Messages)
    BY <1>9, MessageTypes, Taken, Appended DEF RadioConfigures, Take, Commands
  <2> QED
    BY <1>9, <2>1 DEF RadioConfigures, channel, flags, radio
<1>10. CASE RadioJoins(Successes \cup Failures)
  <2>1. commands' \in Seq(Commands) /\ air' \in Seq(Messages)
    BY <1>10, MessageTypes, Taken, Appended DEF RadioJoins, Take, Commands
  <2>2. script' \in Seq(Whats)
    BY <1>10, ScriptType DEF RadioJoins
  <2>3. attempt < MaxAttempts
    BY <1>10, CommandTaken DEF RadioJoins, Take, RestInv
  <2> QED
    BY <1>10, <2>1, <2>2, <2>3, attempt + 1 \in 0 .. MaxAttempts DEF RadioJoins, channel, flags
<1>11. CASE RadioLeaves
  <2>1. commands' \in Seq(Commands)
    BY <1>11, Taken DEF RadioLeaves, Take
  <2>2. AnswerTo("Disassoc") \in Messages /\ Event("LINK_DOWN", attempt) \in Messages
    BY MessageTypes DEF Whats, Commands
  <2>3. \A s \in Seq(Messages), e \in Messages : Append(s, e) \in Seq(Messages)
    BY Appended
  <2>4. air' \in Seq(Messages)
    BY <1>11, <2>2, <2>3, Leaving
  <2>5. script' \in Seq(Whats)
    BY <1>11, Nothing DEF RadioLeaves
  <2> QED
    BY <1>11, <2>1, <2>4, <2>5 DEF RadioLeaves, channel, flags
<1>12. CASE RadioReports
  <2>1. Head(script) \in Whats /\ script' \in Seq(Whats)
    BY <1>12, Taken DEF RadioReports
  <2>2. air' \in Seq(Messages)
    BY <1>12, <2>1, MessageTypes, Appended DEF RadioReports
  <2>3. associated' \in BOOLEAN /\ keyed' \in BOOLEAN /\ complete' \in BOOLEAN
    BY <1>12 DEF RadioReports
  <2> QED
    BY <1>12, <2>1, <2>2, <2>3 DEF RadioReports, channel, flags
<1>13. CASE RadioLosesLink
  <2>1. air' \in Seq(Messages)
    BY <1>13, MessageTypes, Names, Appended DEF RadioLosesLink
  <2>2. script' \in Seq(Whats)
    BY <1>13, Nothing DEF RadioLosesLink
  <2> QED
    BY <1>13, <2>1, <2>2 DEF RadioLosesLink, channel, flags
<1>14. CASE BudgetExpires
  <2>1. 0 \in 0 .. MaxAttempts
    OBVIOUS
  <2>2. queue' \in Seq(Messages) /\ Len(queue') <= QueueSize /\ commands' \in Seq(Commands)
        /\ air' \in Seq(Messages) /\ script' \in Seq(Whats)
    BY <1>14, Nothing DEF BudgetExpires
  <2>3. app' \in Phases
    BY <1>14, Names DEF BudgetExpires
  <2> QED
    BY <1>14, <2>1, <2>2, <2>3 DEF BudgetExpires
<1> QED
  BY <1>1, <1>2, <1>3, <1>4, <1>5, <1>6, <1>7, <1>8, <1>9, <1>10, <1>11, <1>12, <1>13, <1>14
  DEF Next, Driver, Environment

-----------------------------------------------------------------------------
(* The radio.                                                              *)

(* A request to join finds the radio at rest. *)
LEMMA RestsBeforeJoin ==
  ASSUME AnswersInv, RestInv, Take("SetSsid")
  PROVE  Quiet /\ attempt < MaxAttempts
BY CommandTaken DEF Take, RestInv

LEMMA ScriptStep ==
  ASSUME TypeOK, ScriptInv, AnswersInv, RestInv, Next
  PROVE  ScriptInv'
<1>1. CASE UNCHANGED <<script, associated, keyed>>
  BY <1>1 DEF ScriptInv
<1>2. CASE RadioJoins(Successes \cup Failures)
  <2>1. ~ associated' /\ ~ keyed'
    BY <1>2, RestsBeforeJoin DEF RadioJoins, Quiet
  <2>2. script' \in Unjoined /\ script' \notin Joined
    BY <1>2, Kinds DEF RadioJoins
  <2> QED
    BY <2>1, <2>2 DEF ScriptInv
<1>3. ASSUME RadioLeaves \/ RadioLosesLink \/ BudgetExpires
      PROVE  ScriptInv'
  BY <1>3, Kinds DEF RadioLeaves, RadioLosesLink, BudgetExpires, ScriptInv
<1>4. CASE RadioReports
  <2> DEFINE what == Head(script)
             rest == Tail(script)
  <2>1. script \in Unjoined \cup Joined /\ script' = rest
    BY <1>4 DEF RadioReports, ScriptInv
  <2>2. GoesOn(script, what, rest)
    BY <2>1, ScriptGoesOn
  <2>3. /\ associated' = CASE what = "JOIN" -> TRUE [] what = "LINK_DOWN" -> FALSE
                           [] OTHER -> associated
        /\ keyed' = (keyed \/ what = "PSK_SUP")
    BY <1>4 DEF RadioReports
  <2>4. keyed => script = <<"SET_SSID">> /\ rest = <<>>
    BY <2>1, Tails, Kinds DEF ScriptInv
  <2>5. script \in Unjoined => ~ associated /\ ~ keyed /\ script \notin Joined
    BY Kinds DEF ScriptInv
  <2>6. script \in Joined => associated
    BY DEF ScriptInv
  <2> HIDE DEF what, rest
  <2>7. CASE what = "AUTH"
    BY <2>1, <2>2, <2>3, <2>5, <2>7, Kinds DEF GoesOn, ScriptInv
  <2>8. CASE what = "JOIN"
    BY <2>1, <2>2, <2>3, <2>4, <2>5, <2>8, Kinds DEF GoesOn, ScriptInv
  <2>9. CASE what = "PSK_SUP"
    BY <2>1, <2>2, <2>3, <2>6, <2>9, Kinds DEF GoesOn, ScriptInv
  <2>10. CASE what = "LINK_DOWN"
    BY <2>1, <2>2, <2>3, <2>4, <2>10, Kinds DEF GoesOn, ScriptInv
  <2>11. CASE what \in {"SET_SSID", "PSK_SUP_ABORT", "PSK_SUP_FAIL"}
    BY <2>1, <2>2, <2>3, <2>4, <2>6, <2>11, Kinds DEF GoesOn, ScriptInv
  <2>12. CASE what \in {"NO_NETWORKS", "AUTH_FAIL", "SET_SSID_FAIL"}
    BY <2>1, <2>2, <2>3, <2>5, <2>12, Kinds DEF GoesOn, ScriptInv
  <2> QED
    BY <2>2, <2>7, <2>8, <2>9, <2>10, <2>11, <2>12 DEF GoesOn
<1> QED
  BY <1>1, <1>2, <1>3, <1>4
  DEF Next, Driver, Environment, CallConnect, BeginJoin, Hear, JoinSucceeds, JoinFails, FlashLed,
      LedWritten, JoinTimesOut, PauseEnds, LinkIsUp, LinkIsDown, Configured, DhcpTimesOut, Rejoin,
      ReceiveEvent, ReceiveAnswer, Lease, LeaseLost, RadioConfigures, radio

-----------------------------------------------------------------------------
(* What is under way, when an event comes or goes.                         *)

LEMMA EventAppended ==
  ASSUME NEW s \in Seq(Messages), NEW e \in Messages, e.what \notin Commands, NEW c \in Commands
  PROVE  /\ NoAnswer(s) => NoAnswer(Append(s, e))
         /\ OneAnswer(s, c) => OneAnswer(Append(s, e), c)
         /\ LastAnswer(s, c) => LastAnswer(Append(s, e), c)
         /\ NotAnswered(s, c) => NotAnswered(Append(s, e), c)
<1> DEFINE t == Append(s, e)
<1>1. /\ Len(t) = Len(s) + 1 /\ Len(s) \in Nat
      /\ \A i \in 1 .. Len(s) : t[i] = s[i]
      /\ t[Len(s) + 1] = e
  BY Appended
<1> HIDE DEF t
<1>2. \A j \in 1 .. Len(t) : (j \in 1 .. Len(s) /\ t[j] = s[j]) \/ (j = Len(s) + 1 /\ t[j] = e)
  BY <1>1
<1>3. NoAnswer(s) => NoAnswer(t)
  BY <1>2 DEF NoAnswer
<1>4. NotAnswered(s, c) => NotAnswered(t, c)
  BY <1>2 DEF NotAnswered
<1>5. ASSUME OneAnswer(s, c)
      PROVE  OneAnswer(t, c)
  <2>1. PICK i \in 1 .. Len(s) : /\ s[i].what = c
                                 /\ \A j \in 1 .. Len(s) : j # i => s[j].what \notin Commands
    BY <1>5 DEF OneAnswer
  <2>2. i \in 1 .. Len(t) /\ t[i].what = c
    BY <1>1, <2>1
  <2>3. \A j \in 1 .. Len(t) : j # i => t[j].what \notin Commands
    BY <1>2, <2>1
  <2> QED
    BY <2>2, <2>3 DEF OneAnswer
<1>6. ASSUME LastAnswer(s, c)
      PROVE  LastAnswer(t, c)
  <2>1. PICK i \in 1 .. Len(s) : /\ s[i].what = c
                                 /\ \A j \in 1 .. Len(s) : j # i => s[j].what # c
                                 /\ \A j \in i + 1 .. Len(s) : s[j].what \notin Commands
    BY <1>6 DEF LastAnswer
  <2>2. i \in 1 .. Len(t) /\ t[i].what = c
    BY <1>1, <2>1
  <2>3. \A j \in 1 .. Len(t) : j # i => t[j].what # c
    BY <1>2, <2>1
  <2>4. ASSUME NEW j \in i + 1 .. Len(t)
        PROVE  t[j].what \notin Commands
    <3>1. j \in 1 .. Len(t) /\ (j \in 1 .. Len(s) => j \in i + 1 .. Len(s))
      BY <1>1
    <3> QED
      BY <1>2, <2>1, <3>1
  <2> QED
    BY <2>2, <2>3, <2>4 DEF LastAnswer
<1> QED
  BY <1>3, <1>4, <1>5, <1>6 DEF t

LEMMA AnyTaken ==
  ASSUME NEW s \in Seq(Messages), s # <<>>, NEW c \in Commands
  PROVE  /\ NoAnswer(s) => NoAnswer(Tail(s))
         /\ OneAnswer(s, c) /\ s[1].what \notin Commands => OneAnswer(Tail(s), c)
         /\ LastAnswer(s, c) /\ s[1].what # c => LastAnswer(Tail(s), c)
         /\ NotAnswered(s, c) => NotAnswered(Tail(s), c)
<1> DEFINE t == Tail(s)
<1>1. /\ Len(t) = Len(s) - 1 /\ Len(s) \in Nat \ {0}
      /\ \A i \in 1 .. Len(s) - 1 : t[i] = s[i + 1]
  BY Taken
<1> HIDE DEF t
<1>2. \A j \in 1 .. Len(t) : j + 1 \in 1 .. Len(s) /\ t[j] = s[j + 1]
  BY <1>1
<1>3. NoAnswer(s) => NoAnswer(t)
  BY <1>2 DEF NoAnswer
<1>4. NotAnswered(s, c) => NotAnswered(t, c)
  BY <1>2 DEF NotAnswered
<1>5. ASSUME OneAnswer(s, c), s[1].what \notin Commands
      PROVE  OneAnswer(t, c)
  <2>1. PICK i \in 1 .. Len(s) : /\ s[i].what = c
                                 /\ \A j \in 1 .. Len(s) : j # i => s[j].what \notin Commands
    BY <1>5 DEF OneAnswer
  <2>2. i - 1 \in 1 .. Len(t) /\ t[i - 1].what = c
    BY <1>1, <1>5, <2>1
  <2>3. \A j \in 1 .. Len(t) : j # i - 1 => t[j].what \notin Commands
    <3>1. \A j \in 1 .. Len(t) : j # i - 1 => j + 1 # i
      BY <1>1
    <3> QED
      BY <1>2, <2>1, <3>1
  <2> QED
    BY <2>2, <2>3 DEF OneAnswer
<1>6. ASSUME LastAnswer(s, c), s[1].what # c
      PROVE  LastAnswer(t, c)
  <2>1. PICK i \in 1 .. Len(s) : /\ s[i].what = c
                                 /\ \A j \in 1 .. Len(s) : j # i => s[j].what # c
                                 /\ \A j \in i + 1 .. Len(s) : s[j].what \notin Commands
    BY <1>6 DEF LastAnswer
  <2>2. i - 1 \in 1 .. Len(t) /\ t[i - 1].what = c
    BY <1>1, <1>6, <2>1
  <2>3. \A j \in 1 .. Len(t) : j # i - 1 => t[j].what # c
    <3>1. \A j \in 1 .. Len(t) : j # i - 1 => j + 1 # i
      BY <1>1
    <3> QED
      BY <1>2, <2>1, <3>1
  <2>4. ASSUME NEW j \in i - 1 + 1 .. Len(t)
        PROVE  t[j].what \notin Commands
    <3>1. j \in 1 .. Len(t) /\ j + 1 \in i + 1 .. Len(s)
      BY <1>1
    <3> QED
      BY <1>2, <2>1, <3>1
  <2> QED
    BY <2>2, <2>3, <2>4 DEF LastAnswer
<1> QED
  BY <1>3, <1>4, <1>5, <1>6 DEF t

(* An answer that comes after no other. *)
LEMMA AnswerAppended ==
  ASSUME NEW s \in Seq(Messages), NEW c \in Commands, AnswerTo(c) \in Messages
  PROVE  /\ NoAnswer(s) => OneAnswer(Append(s, AnswerTo(c)), c)
         /\ NotAnswered(s, c) => LastAnswer(Append(s, AnswerTo(c)), c)
         /\ \A d \in Commands : d # c /\ NotAnswered(s, d) => NotAnswered(Append(s, AnswerTo(c)), d)
<1> DEFINE e == AnswerTo(c)
           t == Append(s, e)
<1>1. e.what = c /\ e \in Messages
  BY DEF AnswerTo, Event
<1> HIDE DEF e
<1>2. /\ Len(t) = Len(s) + 1 /\ Len(s) \in Nat
      /\ \A i \in 1 .. Len(s) : t[i] = s[i]
      /\ t[Len(s) + 1] = e
  BY <1>1, Appended
<1> HIDE DEF t
<1>3. \A j \in 1 .. Len(t) : (j \in 1 .. Len(s) /\ t[j] = s[j]) \/ (j = Len(s) + 1 /\ t[j] = e)
  BY <1>2
<1>4. \A j \in 1 .. Len(t) : j # Len(s) + 1 => j \in 1 .. Len(s) /\ t[j] = s[j]
  BY <1>2
<1>5. Len(s) + 1 \in 1 .. Len(t) /\ t[Len(s) + 1].what = c
  BY <1>1, <1>2
<1>6. NoAnswer(s) => OneAnswer(t, c)
  BY <1>4, <1>5 DEF NoAnswer, OneAnswer
<1>7. Len(s) + 1 + 1 .. Len(t) = {}
  BY <1>2
<1>8. NotAnswered(s, c) => LastAnswer(t, c)
  BY <1>4, <1>5, <1>7 DEF NotAnswered, LastAnswer
<1>9. \A d \in Commands : d # c /\ NotAnswered(s, d) => NotAnswered(t, d)
  BY <1>1, <1>3 DEF NotAnswered
<1> QED
  BY <1>6, <1>8, <1>9 DEF t, e

(* The requests there can be, and how they come about. *)
LEMMA Requests ==
  ASSUME NEW c, NEW d
  PROVE  /\ Append(<<>>, c) = <<c>> /\ Append(<<d>>, c) = <<d, c>>
         /\ Len(<<c>>) = 1 /\ Len(<<d, c>>) = 2 /\ Len(<<>>) = 0
         /\ <<c>> # <<>> /\ <<d, c>> # <<>>
<1>1. Append(<<>>, c) = <<c>>
  OBVIOUS
<1>2. Append(<<d>>, c) = <<d, c>>
  <2> DEFINE S == {c, d}
             t == Append(<<d>>, c)
  <2>1. <<d>> \in Seq(S) /\ c \in S /\ <<d, c>> \in Seq(S)
    OBVIOUS
  <2>2. t \in Seq(S) /\ Len(t) = 2 /\ t[1] = d /\ t[2] = c
    BY <2>1
  <2>3. Len(<<d, c>>) = 2 /\ \A i \in 1 .. 2 : t[i] = <<d, c>>[i]
    BY <2>2
  <2>4. \A s, u \in Seq(S) : Len(s) = Len(u) /\ (\A i \in 1 .. Len(s) : s[i] = u[i]) => s = u
    OBVIOUS
  <2> QED
    BY <2>1, <2>2, <2>3, <2>4
<1>3. Len(<<c>>) = 1 /\ Len(<<d, c>>) = 2 /\ Len(<<>>) = 0
  OBVIOUS
<1>4. <<c>> # <<>> /\ <<d, c>> # <<>>
  BY <1>3
<1> QED
  BY <1>1, <1>2, <1>3, <1>4

LEMMA RadioRests ==
  ASSUME RestInv, RadioReports \/ RadioLosesLink
  PROVE  /\ app \notin {"start", "begin", "prepare"} /\ ~ Told
         /\ ~ (app = "leave" /\ Len(commands) = 2)
         /\ ~ (app \in {"leave", "leave_first"} /\ commands = <<>>)
BY DEF RestInv, Quiet, RadioReports, RadioLosesLink

LEMMA NothingAnswered ==
  ASSUME TypeOK
  PROVE  /\ NoAnswer(<<>>)
         /\ NoAnswer(air) => NotAnswered(air, "Disassoc")
         /\ \A c \in Commands : c # "Disassoc" /\ OneAnswer(air, c) => NotAnswered(air, "Disassoc")
<1>1. NoAnswer(<<>>)
  BY DEF NoAnswer
<1>2. NoAnswer(air) => NotAnswered(air, "Disassoc")
  BY DEF NoAnswer, NotAnswered, Commands
<1>3. \A c \in Commands : c # "Disassoc" /\ OneAnswer(air, c) => NotAnswered(air, "Disassoc")
  BY DEF OneAnswer, NotAnswered, Commands
<1> QED
  BY <1>1, <1>2, <1>3

LEMMA AnswersSteady ==
  ASSUME AnswersInv, UNCHANGED <<app, commands, air>>
  PROVE  AnswersInv'
BY DEF AnswersInv, Told, Outstanding, NoAnswer, OneAnswer, LastAnswer, NotAnswered

(* Nothing was under way, and nothing is. *)
LEMMA AnswersIdle ==
  ASSUME AnswersInv, UNCHANGED <<commands, air>>,
         app \notin {"prepare", "set_ssid", "leave", "leave_first"},
         app' \notin {"prepare", "set_ssid", "leave", "leave_first"}
  PROVE  AnswersInv'
BY DEF AnswersInv, Told, NoAnswer

LEMMA AnswersTimeout ==
  ASSUME TypeOK, AnswersInv, JoinTimesOut
  PROVE  AnswersInv'
<1>1. app \in Joining /\ app' = "leave" /\ air' = air
  BY DEF JoinTimesOut
<1>2. PICK left \in {commands, <<>>} : commands' = Append(left, "Disassoc")
  BY DEF JoinTimesOut, Abandoned
<1>3. CASE left = <<>>
  <2>1. commands' = <<"Disassoc">>
    BY <1>2, <1>3, Requests
  <2>2. NotAnswered(air, "Disassoc")
    <3>1. CASE app = "prepare"
      BY <3>1, NothingAnswered, Names DEF AnswersInv, Outstanding
    <3>2. CASE Told
      BY <3>2, NothingAnswered DEF AnswersInv
    <3>3. CASE app = "set_ssid" /\ ~ Told
      <4>1. air \in Seq(Messages) /\ air[1].what = "SetSsid"
            /\ \A i \in 2 .. Len(air) : air[i].what \notin Commands
        BY <3>3 DEF AnswersInv, TypeOK
      <4>2. \A i \in 1 .. Len(air) : i = 1 \/ i \in 2 .. Len(air)
        BY <4>1
      <4> QED
        BY <4>1, <4>2, Names DEF NotAnswered
    <3>4. CASE app \in {"listen", "flash"}
      BY <3>4, NothingAnswered DEF AnswersInv
    <3> QED
      BY <1>1, <3>1, <3>2, <3>3, <3>4 DEF Joining, Told
  <2>3. NotAnswered(air, "Disassoc")'
    BY <1>1, <2>2 DEF NotAnswered
  <2> QED
    BY <1>1, <2>1, <2>3 DEF AnswersInv, Told
<1>4. CASE left = commands /\ commands # <<>>
  <2>1. commands \in {<<"Configure">>, <<"SetSsid">>} /\ NoAnswer(air)
    BY <1>1, <1>4, NothingAnswered DEF AnswersInv, Outstanding, Told, Joining
  <2>2. commands' \in {<<"Configure", "Disassoc">>, <<"SetSsid", "Disassoc">>}
    BY <1>2, <1>4, <2>1, Requests
  <2>3. NoAnswer(air)'
    BY <1>1, <2>1 DEF NoAnswer
  <2> QED
    BY <1>1, <2>2, <2>3 DEF AnswersInv, Told
<1> QED
  BY <1>2, <1>3, <1>4

LEMMA AnswersEvent ==
  ASSUME TypeOK, AnswersInv, ReceiveEvent
  PROVE  AnswersInv'
<1> DEFINE t == Tail(air)
<1>1. /\ air # <<>> /\ air \in Seq(Messages) /\ air' = t
      /\ UNCHANGED <<app, commands>>
      /\ Head(air).what \notin Commands
  BY DEF ReceiveEvent, TypeOK
<1>2. /\ Len(t) = Len(air) - 1 /\ Len(air) \in Nat \ {0}
      /\ \A i \in 1 .. Len(air) - 1 : t[i] = air[i + 1]
      /\ air[1].what \notin Commands /\ Head(air) = air[1]
  BY <1>1, Taken
<1>3. \A c \in Commands :
        /\ NoAnswer(air) => NoAnswer(t)
        /\ OneAnswer(air, c) => OneAnswer(t, c)
        /\ LastAnswer(air, c) => LastAnswer(t, c)
        /\ NotAnswered(air, c) => NotAnswered(t, c)
  BY <1>1, <1>2, AnyTaken
<1> HIDE DEF t
<1>4. app = "prepare" /\ commands = <<>> => t[Len(t)].what \in Commands
  <2>1. ASSUME app = "prepare", commands = <<>>
        PROVE  air[Len(air)].what \in Commands /\ Len(air) # 1
    BY <1>2, <2>1 DEF AnswersInv
  <2> QED
    BY <1>2, <2>1
<1>5. ~ Told /\ app # "set_ssid"
  BY <1>1, <1>2, Names DEF AnswersInv
<1>6. AnswersInv' <=>
        /\ app = "prepare" => \/ commands = <<"Configure">> /\ NoAnswer(t)
                              \/ commands = <<>> /\ OneAnswer(t, "Configure")
        /\ app = "prepare" /\ commands = <<>> => t[Len(t)].what \in Commands
        /\ app = "leave" =>
             \/ /\ commands \in {<<"Configure", "Disassoc">>, <<"SetSsid", "Disassoc">>}
                /\ NoAnswer(t)
             \/ /\ commands = <<"Disassoc">>
                /\ NotAnswered(t, "Disassoc")
             \/ commands = <<>> /\ LastAnswer(t, "Disassoc")
        /\ app = "leave_first" => \/ commands = <<"Disassoc">> /\ NoAnswer(t)
                                  \/ commands = <<>> /\ OneAnswer(t, "Disassoc")
        /\ app \notin {"prepare", "set_ssid", "leave", "leave_first"} => commands = <<>> /\ NoAnswer(t)
  BY <1>1, <1>5 DEF AnswersInv, Outstanding, Told, NoAnswer, OneAnswer, LastAnswer, NotAnswered
<1> QED
  BY <1>3, <1>4, <1>5, <1>6, Names DEF AnswersInv, Outstanding

LEMMA AnswersAnswer ==
  ASSUME TypeOK, AnswersInv, ReceiveAnswer
  PROVE  AnswersInv'
<1> DEFINE t == Tail(air)
<1>1. /\ air # <<>> /\ air \in Seq(Messages) /\ air' = t
      /\ Head(air).what \in Commands
  BY DEF ReceiveAnswer, TypeOK
<1>2. Head(air) = air[1]
  BY <1>1, Taken
<1>3. NoAnswer(<<>>)' /\ NoAnswer(<<>>)
  BY NothingAnswered DEF NoAnswer
<1>4. (\A i \in 1 .. Len(t) : t[i].what \notin Commands) => NoAnswer(air)'
  BY <1>1 DEF NoAnswer
<1>5. /\ NotAnswered(air, "Disassoc") => NotAnswered(air, "Disassoc")'
      /\ LastAnswer(air, "Disassoc") /\ Head(air).what # "Disassoc" => LastAnswer(air, "Disassoc")'
  <2>1. /\ NotAnswered(air, "Disassoc") => NotAnswered(t, "Disassoc")
        /\ LastAnswer(air, "Disassoc") /\ Head(air).what # "Disassoc" => LastAnswer(t, "Disassoc")
    BY <1>1, <1>2, AnyTaken, Names
  <2> QED
    BY <1>1, <2>1 DEF NotAnswered, LastAnswer
<1>6. NoAnswer(air) => Head(air).what \notin Commands
  <2>1. Len(air) \in Nat \ {0}
    BY <1>1, Taken
  <2> QED
    BY <1>2, <2>1 DEF NoAnswer
<1> HIDE DEF t
<1>7. CASE app = "prepare" /\ Head(air).what = "Configure" /\ commands = <<>> /\ t = <<>>
  <2>1. app' = "set_ssid" /\ commands' = <<"SetSsid">> /\ air' = <<>>
    BY <1>1, <1>7, Requests DEF ReceiveAnswer, Request
  <2> QED
    BY <2>1, Requests DEF AnswersInv, Told
<1>8. CASE /\ app = "set_ssid" /\ ~ Told /\ Head(air).what = "SetSsid"
           /\ \A i \in 1 .. Len(t) : t[i].what \notin Commands
  <2>1. app' = "listen" /\ commands' = <<>>
    BY <1>1, <1>8 DEF ReceiveAnswer, Told
  <2> QED
    BY <1>4, <1>8, <2>1 DEF AnswersInv, Told
<1>9. CASE /\ app = "leave" /\ Head(air).what = "Disassoc" /\ commands = <<>>
           /\ \A i \in 1 .. Len(t) : t[i].what \notin Commands
  <2>1. app' = "pause" /\ commands' = <<>>
    BY <1>1, <1>9 DEF ReceiveAnswer
  <2> QED
    BY <1>4, <1>9, <2>1 DEF AnswersInv, Told
<1>10. CASE app = "leave" /\ Head(air).what # "Disassoc"
  <2>1. app' = "leave" /\ commands' = commands
    BY <1>1, <1>10 DEF ReceiveAnswer
  <2>2. \/ commands = <<"Disassoc">> /\ NotAnswered(air, "Disassoc")
        \/ commands = <<>> /\ LastAnswer(air, "Disassoc")
    BY <1>1, <1>6, <1>10 DEF AnswersInv
  <2> QED
    BY <1>5, <1>10, <2>1, <2>2 DEF AnswersInv, Told
<1>11. CASE /\ app = "leave_first" /\ Head(air).what = "Disassoc" /\ commands = <<>>
            /\ \A i \in 1 .. Len(t) : t[i].what \notin Commands
  <2>1. app' = "begin" /\ commands' = <<>>
    BY <1>1, <1>11 DEF ReceiveAnswer
  <2> QED
    BY <1>4, <1>11, <2>1 DEF AnswersInv, Told
<1> QED
  BY <1>1, <1>7, <1>8, <1>9, <1>10, <1>11, AnswerRead DEF t

LEMMA AnswersTake ==
  ASSUME TypeOK, AnswersInv, RadioConfigures \/ RadioJoins(Successes \cup Failures)
  PROVE  AnswersInv'
<1> DEFINE c == Head(commands)
           t == Append(air, AnswerTo(c))
<1>1. /\ commands # <<>> /\ c \in {"Configure", "SetSsid"}
      /\ app' = app /\ commands' = Tail(commands) /\ air' = t
  BY DEF RadioConfigures, RadioJoins, Take
<1>2. air \in Seq(Messages) /\ AnswerTo(c) \in Messages /\ c \in Commands
  BY <1>1, MessageTypes, Names DEF TypeOK
<1>3. /\ NoAnswer(air) => OneAnswer(t, c)
      /\ NotAnswered(air, "Disassoc") => NotAnswered(t, "Disassoc")
  BY <1>1, <1>2, AnswerAppended, Names
<1>4. NoAnswer(air) => NotAnswered(air, "Disassoc")
  BY NothingAnswered
<1>5. Len(t) = Len(air) + 1 /\ t[Len(air) + 1].what = c /\ Len(air) \in Nat /\ t # <<>>
      /\ \A i \in 1 .. Len(air) : t[i] = air[i]
  BY <1>2, Appended DEF AnswerTo, Event
<1> HIDE DEF c, t
<1>6. CASE app = "prepare" /\ NoAnswer(air) /\ c = "Configure" /\ Tail(commands) = <<>>
  <2>1. OneAnswer(air, "Configure")' /\ (air[Len(air)].what \in Commands)'
    BY <1>1, <1>2, <1>3, <1>5, <1>6 DEF OneAnswer
  <2> QED
    BY <1>1, <1>6, <2>1 DEF AnswersInv, Outstanding, Told
<1>7. CASE Told /\ air = <<>> /\ c = "SetSsid" /\ Tail(commands) = <<>>
  <2>1. Len(t) = 1 /\ t[1].what = "SetSsid"
    BY <1>5, <1>7, Nothing
  <2>2. \A i \in 2 .. Len(t) : FALSE
    BY <2>1
  <2> QED
    BY <1>1, <1>5, <1>7, <2>1, <2>2 DEF AnswersInv, Told
<1>8. CASE /\ app = "leave" /\ NoAnswer(air) /\ Tail(commands) = <<"Disassoc">>
  <2>1. NotAnswered(air, "Disassoc")'
    BY <1>1, <1>3, <1>4, <1>8 DEF NotAnswered
  <2> QED
    BY <1>1, <1>8, <2>1 DEF AnswersInv, Told
<1> QED
  BY <1>1, <1>6, <1>7, <1>8, CommandTaken DEF c

LEMMA AnswersLeave ==
  ASSUME TypeOK, AnswersInv, RadioLeaves
  PROVE  AnswersInv'
<1> DEFINE answer == AnswerTo("Disassoc")
           down == Event("LINK_DOWN", attempt)
           after(s) == /\ NoAnswer(air) => OneAnswer(s, "Disassoc")
                       /\ NotAnswered(air, "Disassoc") => LastAnswer(s, "Disassoc")
<1>1. commands # <<>> /\ app' = app /\ commands' = Tail(commands) /\ Head(commands) = "Disassoc"
  BY DEF RadioLeaves, Take
<1>2. /\ air \in Seq(Messages) /\ answer \in Messages /\ down \in Messages
      /\ down.what \notin Commands
  BY MessageTypes, Names DEF TypeOK, Event, Commands
<1>3. /\ Append(air, answer) \in Seq(Messages) /\ Append(air, down) \in Seq(Messages)
  BY <1>2, Appended
<1>4. after(Append(air, answer))
  BY <1>2, AnswerAppended, Names
<1>5. after(Append(Append(air, answer), down))
  BY <1>2, <1>3, <1>4, EventAppended, Names
<1>6. after(Append(Append(air, down), answer))
  <2>1. /\ NoAnswer(air) => NoAnswer(Append(air, down))
        /\ NotAnswered(air, "Disassoc") => NotAnswered(Append(air, down), "Disassoc")
    BY <1>2, EventAppended, Names
  <2> QED
    BY <1>2, <1>3, <2>1, AnswerAppended, Names
<1>7. after(air')
  BY <1>4, <1>5, <1>6, Leaving
<1>8. /\ \/ app = "leave" /\ NotAnswered(air, "Disassoc")
         \/ app = "leave_first" /\ NoAnswer(air)
      /\ Tail(commands) = <<>>
  BY <1>1, CommandTaken
<1>9. CASE app = "leave" /\ LastAnswer(air', "Disassoc")
  <2>1. LastAnswer(air, "Disassoc")'
    BY <1>9 DEF LastAnswer
  <2> QED
    BY <1>1, <1>8, <1>9, <2>1 DEF AnswersInv, Told
<1>10. CASE app = "leave_first" /\ OneAnswer(air', "Disassoc")
  <2>1. OneAnswer(air, "Disassoc")'
    BY <1>10 DEF OneAnswer
  <2> QED
    BY <1>1, <1>8, <1>10, <2>1 DEF AnswersInv, Told, Outstanding
<1> QED
  BY <1>7, <1>8, <1>9, <1>10

LEMMA AnswersReport ==
  ASSUME TypeOK, AnswersInv, RestInv, RadioReports \/ RadioLosesLink
  PROVE  AnswersInv'
<1>1. PICK e \in Messages : air' = Append(air, e) /\ e.what \notin Commands
  <2>1. Whats \cap Commands = {}
    BY DEF Whats, Commands
  <2>2. ASSUME NEW what \in Whats
        PROVE  Event(what, attempt) \in Messages /\ Event(what, attempt).what \notin Commands
    BY <2>1, MessageTypes DEF Event
  <2>3. CASE RadioReports
    <3>1. Head(script) \in Whats
      BY <2>3, Taken DEF RadioReports, TypeOK
    <3> QED
      BY <2>2, <2>3, <3>1 DEF RadioReports
  <2>4. CASE RadioLosesLink
    BY <2>2, <2>4, Names DEF RadioLosesLink
  <2> QED
    BY <2>3, <2>4
<1>2. UNCHANGED <<app, commands>>
  BY DEF RadioReports, RadioLosesLink
<1> DEFINE t == Append(air, e)
<1>3. air \in Seq(Messages) /\ Len(t) = Len(air) + 1 /\ Len(air) \in Nat /\ t # <<>>
      /\ \A i \in 1 .. Len(air) : t[i] = air[i]
      /\ t[Len(air) + 1] = e
  BY <1>1, Appended DEF TypeOK
<1>4. \A c \in Commands :
        /\ NoAnswer(air) => NoAnswer(t)
        /\ OneAnswer(air, c) => OneAnswer(t, c)
        /\ NotAnswered(air, c) => NotAnswered(t, c)
  BY <1>1, <1>3, EventAppended
<1> HIDE DEF t
<1>5. /\ NoAnswer(air) => NoAnswer(air)'
      /\ NotAnswered(air, "Disassoc") => NotAnswered(air, "Disassoc")'
      /\ OneAnswer(air, "Disassoc") => OneAnswer(air, "Disassoc")'
  BY <1>1, <1>4, Names DEF t, NoAnswer, OneAnswer, NotAnswered
<1>6. app # "prepare" /\ ~ Told /\ app # "start"
      /\ ~ (app \in {"leave", "leave_first"} /\ commands = <<>>)
  BY RadioRests
<1>7. CASE app = "set_ssid"
  <2>1. air # <<>> /\ air[1].what = "SetSsid" /\ \A i \in 2 .. Len(air) : air[i].what \notin Commands
    BY <1>6, <1>7 DEF AnswersInv
  <2>2. Len(air) # 0
    BY <1>3, <2>1, NoneLeft
  <2>3. t[1].what = "SetSsid"
    BY <1>3, <2>1, <2>2
  <2>4. \A i \in 2 .. Len(t) : i \in 2 .. Len(air) \/ i = Len(air) + 1
    BY <1>3
  <2>5. \A i \in 2 .. Len(air) : t[i] = air[i]
    BY <1>3
  <2>6. \A i \in 2 .. Len(t) : t[i].what \notin Commands
    BY <1>1, <1>3, <2>1, <2>4, <2>5
  <2> QED
    BY <1>1, <1>2, <1>3, <1>6, <1>7, <2>3, <2>6 DEF AnswersInv, Told, t
<1>8. CASE app = "leave"
  <2>1. \/ commands \in {<<"Configure", "Disassoc">>, <<"SetSsid", "Disassoc">>} /\ NoAnswer(air)
        \/ commands = <<"Disassoc">> /\ NotAnswered(air, "Disassoc")
    BY <1>6, <1>8 DEF AnswersInv
  <2> QED
    BY <1>2, <1>5, <1>8, <2>1 DEF AnswersInv, Told
<1>9. CASE app = "leave_first"
  <2>1. commands = <<"Disassoc">> /\ NoAnswer(air)
    BY <1>6, <1>9 DEF AnswersInv, Outstanding
  <2> QED
    BY <1>2, <1>5, <1>9, <2>1 DEF AnswersInv, Told, Outstanding
<1>10. CASE app \notin {"prepare", "set_ssid", "leave", "leave_first"}
  <2>1. commands = <<>> /\ NoAnswer(air)
    BY <1>10 DEF AnswersInv
  <2> QED
    BY <1>2, <1>5, <1>10, <2>1 DEF AnswersInv, Told
<1> QED
  BY <1>6, <1>7, <1>8, <1>9, <1>10

LEMMA AnswersStep ==
  ASSUME TypeOK, AnswersInv, RestInv, Next
  PROVE  AnswersInv'
<1>1. ASSUME Hear \/ Lease \/ LeaseLost
      PROVE  AnswersInv'
  BY <1>1, AnswersSteady DEF Hear, Lease, LeaseLost
<1>2. ASSUME \/ CallConnect \/ JoinSucceeds \/ JoinFails \/ FlashLed \/ LedWritten \/ PauseEnds
             \/ LinkIsUp \/ LinkIsDown \/ Configured
      PROVE  AnswersInv'
  BY <1>2, AnswersIdle
  DEF CallConnect, JoinSucceeds, JoinFails, FlashLed, LedWritten, PauseEnds, LinkIsUp, LinkIsDown,
      Configured
<1>3. ASSUME BeginJoin \/ DhcpTimesOut \/ Rejoin
      PROVE  AnswersInv'
  <2>1. commands = <<>> /\ NoAnswer(air) /\ air' = air
    BY <1>3 DEF BeginJoin, DhcpTimesOut, Rejoin, AnswersInv
  <2>2. \/ app' = "prepare" /\ commands' = <<"Configure">>
        \/ app' \in {"leave", "leave_first"} /\ commands' = <<"Disassoc">>
    BY <1>3, <2>1, Requests DEF BeginJoin, DhcpTimesOut, Rejoin, Request
  <2>3. NoAnswer(air)' /\ NotAnswered(air, "Disassoc")'
    BY <2>1, NothingAnswered DEF NoAnswer, NotAnswered
  <2> QED
    BY <2>2, <2>3, Requests DEF AnswersInv, Outstanding, Told
<1>4. CASE JoinTimesOut
  BY <1>4, AnswersTimeout
<1>5. CASE ReceiveEvent
  BY <1>5, AnswersEvent
<1>6. CASE ReceiveAnswer
  BY <1>6, AnswersAnswer
<1>7. CASE RadioConfigures \/ RadioJoins(Successes \cup Failures)
  BY <1>7, AnswersTake
<1>8. CASE RadioLeaves
  BY <1>8, AnswersLeave
<1>9. CASE RadioReports \/ RadioLosesLink
  BY <1>9, AnswersReport
<1>10. CASE BudgetExpires
  <2>1. app' = "start" /\ commands' = <<>> /\ NoAnswer(air)'
    BY <1>10, NothingAnswered DEF BudgetExpires, NoAnswer
  <2> QED
    BY <2>1 DEF AnswersInv, Told
<1> QED
  BY <1>1, <1>2, <1>3, <1>4, <1>5, <1>6, <1>7, <1>8, <1>9, <1>10 DEF Next, Driver, Environment

-----------------------------------------------------------------------------
(* The radio rests.                                                        *)

LEMMA FailedStays ==
  ASSUME Failed, \/ RadioReports \/ RadioLosesLink
                 \/ UNCHANGED <<script, associated, keyed>>
  PROVE  Failed'
<1>1. CASE RadioReports
  <2>1. CASE script = <<"SET_SSID_FAIL">> /\ ~ associated
    <3>1. Head(script) = "SET_SSID_FAIL" /\ Tail(script) = <<>>
      BY <2>1, Tails
    <3> QED
      BY <1>1, <2>1, <3>1 DEF RadioReports, Failed
  <2>2. CASE script = <<"LINK_DOWN">> /\ associated
    <3>1. Head(script) = "LINK_DOWN" /\ Tail(script) = <<>>
      BY <2>2, Tails
    <3> QED
      BY <1>1, <2>2, <3>1 DEF RadioReports, Failed
  <2> QED
    BY <1>1, <2>1, <2>2 DEF RadioReports, Failed
<1>2. CASE RadioLosesLink
  BY <1>2 DEF RadioLosesLink, Failed
<1>3. CASE UNCHANGED <<script, associated, keyed>>
  BY <1>3 DEF Failed
<1> QED
  BY <1>1, <1>2, <1>3

LEMMA RestSteady ==
  ASSUME RestInv, UNCHANGED <<app, commands, script, associated, keyed, attempt>>
  PROVE  RestInv'
BY DEF RestInv, Told, Quiet, Failed

LEMMA RestStep ==
  ASSUME TypeOK, AnswersInv, RestInv, ListenInv, Next
  PROVE  RestInv'
<1>1. ASSUME Hear \/ Lease \/ LeaseLost \/ ReceiveEvent
      PROVE  RestInv'
  BY <1>1, RestSteady DEF Hear, Lease, LeaseLost, ReceiveEvent, radio
<1>2. ASSUME \/ JoinSucceeds \/ FlashLed \/ LedWritten \/ LinkIsUp \/ LinkIsDown \/ Configured
      PROVE  RestInv'
  BY <1>2 DEF JoinSucceeds, FlashLed, LedWritten, LinkIsUp, LinkIsDown, Configured, RestInv, Told
<1>3. ASSUME CallConnect \/ BeginJoin
      PROVE  RestInv'
  <2>1. Quiet /\ UNCHANGED radio
    BY <1>3 DEF CallConnect, BeginJoin, RestInv
  <2>2. Quiet'
    BY <2>1 DEF Quiet, radio
  <2>3. app' = "begin" \/ (app' = "prepare" /\ attempt' < MaxAttempts)
    BY <1>3 DEF CallConnect, BeginJoin, radio
  <2> QED
    BY <2>2, <2>3 DEF RestInv, Told
<1>4. CASE JoinFails
  <2>1. app = "listen" /\ queue # <<>> /\ Fails(Head(queue).what) /\ app' = "pause"
        /\ UNCHANGED radio
    BY <1>4 DEF JoinFails
  <2>2. Len(queue) \in Nat \ {0} /\ Head(queue) = queue[1]
    BY <2>1, Taken DEF TypeOK
  <2>3. Failed
    BY <2>1, <2>2 DEF ListenInv, Listening, OwnFailures
  <2>4. Failed'
    BY <2>1, <2>3, FailedStays DEF radio
  <2> QED
    BY <2>1, <2>4 DEF RestInv, Told
<1>5. CASE JoinTimesOut
  <2>1. app \in Joining /\ app' = "leave" /\ UNCHANGED radio
    BY <1>5 DEF JoinTimesOut
  <2>2. PICK left \in {commands, <<>>} : commands' = Append(left, "Disassoc")
    BY <1>5 DEF JoinTimesOut, Abandoned
  <2>3. CASE left = <<>>
    <3>1. Len(commands') = 1 /\ commands' # <<>>
      BY <2>2, <2>3, Requests
    <3> QED
      BY <2>1, <3>1 DEF RestInv, Told
  <2>4. CASE left = commands /\ commands # <<>>
    <3>1. app = "prepare" \/ Told
      BY <2>1, <2>4 DEF AnswersInv, Joining, Told
    <3>2. Quiet /\ attempt < MaxAttempts
      BY <3>1 DEF RestInv
    <3>3. Quiet' /\ attempt' < MaxAttempts
      BY <2>1, <3>2 DEF Quiet, radio
    <3> QED
      BY <2>1, <3>3 DEF RestInv, Told
  <2> QED
    BY <2>2, <2>3, <2>4
<1>6. CASE PauseEnds
  <2>1. Quiet
    BY <1>6, Kinds DEF PauseEnds, RestInv, Failed, Quiet
  <2>2. Quiet' /\ app' = "begin"
    BY <1>6, <2>1 DEF PauseEnds, Quiet, radio
  <2> QED
    BY <2>2 DEF RestInv, Told
<1>7. ASSUME DhcpTimesOut \/ Rejoin
      PROVE  RestInv'
  <2>1. commands = <<>>
    BY <1>7 DEF DhcpTimesOut, Rejoin, AnswersInv
  <2>2. app' \in {"leave", "leave_first"} /\ commands' # <<>> /\ Len(commands') = 1
    BY <1>7, <2>1, Requests DEF DhcpTimesOut, Rejoin, Request
  <2> QED
    BY <2>2 DEF RestInv, Told
<1>8. CASE ReceiveAnswer
  <2>1. UNCHANGED radio /\ air # <<>> /\ Head(air).what \in Commands
    BY <1>8 DEF ReceiveAnswer
  <2>2. Quiet => Quiet' /\ Failed'
    BY <2>1 DEF Quiet, Failed, radio
  <2>3. CASE app = "prepare" /\ Head(air).what = "Configure"
    <3>1. app' = "set_ssid" /\ Quiet /\ attempt' < MaxAttempts
      BY <1>8, <2>1, <2>3 DEF ReceiveAnswer, RestInv, radio
    <3> QED
      BY <2>2, <3>1 DEF RestInv, Told
  <2>4. CASE app = "set_ssid" /\ Head(air).what = "SetSsid"
    BY <1>8, <2>4 DEF ReceiveAnswer, RestInv, Told
  <2>5. CASE app = "leave" /\ Head(air).what = "Disassoc" /\ commands = <<>>
    BY <1>8, <2>2, <2>5 DEF ReceiveAnswer, RestInv, Told
  <2>6. CASE app = "leave" /\ Head(air).what # "Disassoc"
    BY <1>8, <2>6, RestSteady DEF ReceiveAnswer, radio
  <2>7. CASE app = "leave_first" /\ Head(air).what = "Disassoc" /\ commands = <<>>
    BY <1>8, <2>2, <2>7 DEF ReceiveAnswer, RestInv, Told
  <2> QED
    BY <2>1, <2>3, <2>4, <2>5, <2>6, <2>7, AnswerRead
<1>9. ASSUME RadioConfigures \/ RadioJoins(Successes \cup Failures)
      PROVE  RestInv'
  <2>1. commands # <<>> /\ commands' = Tail(commands) /\ app' = app
        /\ Head(commands) \in {"Configure", "SetSsid"}
    BY <1>9 DEF RadioConfigures, RadioJoins, Take
  <2>2. CASE app = "prepare" /\ Head(commands) = "Configure"
    <3>1. UNCHANGED radio
      BY <1>9, <2>2 DEF RadioConfigures, RadioJoins, Take
    <3> QED
      BY <2>1, <2>2, <3>1 DEF RestInv, Quiet, Told, radio
  <2>3. CASE Told /\ Tail(commands) = <<>>
    BY <2>1, <2>3 DEF RestInv, Told
  <2>4. CASE app = "leave" /\ Tail(commands) = <<"Disassoc">>
    <3>1. Len(<<"Disassoc">>) = 1 /\ <<"Disassoc">> # <<>>
      BY Requests
    <3> QED
      BY <2>1, <2>4, <3>1 DEF RestInv, Told
  <2> QED
    BY <2>1, <2>2, <2>3, <2>4, CommandTaken
<1>10. CASE RadioLeaves
  <2>1. Quiet' /\ app' = app /\ commands' = Tail(commands) /\ commands # <<>>
        /\ Head(commands) = "Disassoc"
    BY <1>10 DEF RadioLeaves, Take, Quiet
  <2>2. app \in {"leave", "leave_first"} /\ Tail(commands) = <<>>
    BY <2>1, CommandTaken
  <2>3. commands' = <<>> /\ Len(commands') = 0
    BY <2>1, <2>2, Requests
  <2> QED
    BY <2>1, <2>2, <2>3 DEF RestInv, Told
<1>11. ASSUME RadioReports \/ RadioLosesLink
      PROVE  RestInv'
  <2>1. UNCHANGED <<app, commands, attempt>>
    BY <1>11 DEF RadioReports, RadioLosesLink
  <2>2. /\ app \notin {"start", "begin", "prepare"} /\ ~ Told
        /\ ~ (app = "leave" /\ Len(commands) = 2)
        /\ ~ (app \in {"leave", "leave_first"} /\ commands = <<>>)
    BY <1>11, RadioRests
  <2>3. app = "pause" => Failed'
    BY <1>11, FailedStays DEF RestInv
  <2> QED
    BY <2>1, <2>2, <2>3 DEF RestInv, Told
<1>12. CASE BudgetExpires
  BY <1>12 DEF BudgetExpires, RestInv, Quiet, Told
<1> QED
  BY <1>1, <1>2, <1>3, <1>4, <1>5, <1>6, <1>7, <1>8, <1>9, <1>10, <1>11, <1>12
  DEF Next, Driver, Environment

-----------------------------------------------------------------------------
(* The flags.                                                              *)

LEMMA FlagsSteady ==
  ASSUME FlagsInv,
         UNCHANGED <<auth_ok, join_ok, key_exchange_ok, link, air, script, associated, keyed>>
  PROVE  FlagsInv'
BY DEF FlagsInv, KeysFollowAuth, AuthAfter, JoinAfter, KeyAfter, FlagAfter

(* What one more event makes of what the flags come to. *)
LEMMA FlagsAppended ==
  ASSUME NEW s \in Seq(Messages), NEW e \in Messages
  PROVE  LET t == Append(s, e) IN
         /\ AuthAfter(t, Len(t)) <=> Updated(AuthAfter(s, Len(s)), e.what, {"AUTH"}, AuthClears)
         /\ JoinAfter(t, Len(t)) <=> Updated(JoinAfter(s, Len(s)), e.what, {"JOIN"}, {"LINK_DOWN"})
         /\ KeyAfter(t, Len(t)) <=> Updated(KeyAfter(s, Len(s)), e.what, {"PSK_SUP"}, KeyClears)
         /\ KeysFollowAuth(s) /\ (e.what = "PSK_SUP" => AuthAfter(s, Len(s))) => KeysFollowAuth(t)
<1> DEFINE t == Append(s, e)
<1>1. /\ Len(t) = Len(s) + 1 /\ Len(s) \in Nat
      /\ \A i \in 1 .. Len(s) : t[i] = s[i]
      /\ t[Len(s) + 1] = e
  BY Appended
<1>2. /\ AuthAfter(t, Len(t)) <=> Updated(AuthAfter(s, Len(s)), e.what, {"AUTH"}, AuthClears)
      /\ \A n \in 0 .. Len(s) : AuthAfter(t, n) <=> AuthAfter(s, n)
  BY <1>1, FlagAppended DEF AuthAfter
<1>3. JoinAfter(t, Len(t)) <=> Updated(JoinAfter(s, Len(s)), e.what, {"JOIN"}, {"LINK_DOWN"})
  BY <1>1, FlagAppended DEF JoinAfter
<1>4. KeyAfter(t, Len(t)) <=> Updated(KeyAfter(s, Len(s)), e.what, {"PSK_SUP"}, KeyClears)
  BY <1>1, FlagAppended DEF KeyAfter
<1> HIDE DEF t
<1>5. ASSUME KeysFollowAuth(s), e.what = "PSK_SUP" => AuthAfter(s, Len(s))
      PROVE  KeysFollowAuth(t)
  <2>1. ASSUME NEW i \in 1 .. Len(t), t[i].what = "PSK_SUP"
        PROVE  AuthAfter(t, i - 1)
    <3>1. i - 1 \in 0 .. Len(s) /\ (i \in 1 .. Len(s) \/ i = Len(s) + 1)
      BY <1>1
    <3>2. AuthAfter(s, i - 1)
      BY <1>1, <1>5, <2>1, <3>1 DEF KeysFollowAuth
    <3> QED
      BY <1>2, <3>1, <3>2
  <2> QED
    BY <2>1 DEF KeysFollowAuth
<1> QED
  BY <1>2, <1>3, <1>4, <1>5 DEF t

(* An event read does to the flags what they come to anyway. *)
LEMMA FlagsRead ==
  ASSUME TypeOK, FlagsInv, air # <<>>, air' = Tail(air), UNCHANGED <<script, associated, keyed>>,
         auth_ok' = Updated(auth_ok, air[1].what, {"AUTH"}, AuthClears),
         join_ok' = Updated(join_ok, air[1].what, {"JOIN"}, {"LINK_DOWN"}),
         key_exchange_ok' = Updated(key_exchange_ok, air[1].what, {"PSK_SUP"}, KeyClears),
         link' <=> join_ok' /\ key_exchange_ok'
  PROVE  FlagsInv'
<1> DEFINE t == Tail(air)
<1>1. /\ air \in Seq(Messages) /\ Len(air) \in Nat \ {0} /\ Len(t) = Len(air) - 1
      /\ \A i \in 1 .. Len(air) - 1 : t[i] = air[i + 1]
  BY Taken DEF TypeOK
<1>2. \A n \in 1 .. Len(air) :
        /\ AuthAfter(air, n) <=> FlagAfter(t, n - 1, auth_ok', {"AUTH"}, AuthClears)
        /\ JoinAfter(air, n) <=> FlagAfter(t, n - 1, join_ok', {"JOIN"}, {"LINK_DOWN"})
        /\ KeyAfter(air, n) <=> FlagAfter(t, n - 1, key_exchange_ok', {"PSK_SUP"}, KeyClears)
  BY <1>1, FlagTaken DEF AuthAfter, JoinAfter, KeyAfter
<1> HIDE DEF t
<1>3. Len(air') = Len(air) - 1 /\ Len(air) \in 1 .. Len(air)
  BY <1>1 DEF t
<1>4. /\ JoinAfter(air, Len(air))' <=> associated'
      /\ KeyAfter(air, Len(air))' <=> keyed'
      /\ (script \in Authenticating)' => AuthAfter(air, Len(air))'
  <2>1. /\ JoinAfter(air, Len(air))' <=> JoinAfter(air, Len(air))
        /\ KeyAfter(air, Len(air))' <=> KeyAfter(air, Len(air))
        /\ AuthAfter(air, Len(air))' <=> AuthAfter(air, Len(air))
    BY <1>2, <1>3 DEF AuthAfter, JoinAfter, KeyAfter, t
  <2> QED
    BY <2>1 DEF FlagsInv
<1>5. KeysFollowAuth(air)'
  <2>1. ASSUME NEW i \in 1 .. Len(air'), air'[i].what = "PSK_SUP"
        PROVE  FlagAfter(air', i - 1, auth_ok', {"AUTH"}, AuthClears)
    <3>1. i + 1 \in 1 .. Len(air) /\ i \in 1 .. Len(air) /\ air[i + 1].what = "PSK_SUP"
      BY <1>1, <2>1 DEF t
    <3>2. AuthAfter(air, i)
      BY <3>1, i + 1 - 1 = i DEF FlagsInv, KeysFollowAuth
    <3> QED
      BY <1>2, <3>1, <3>2 DEF t
  <2> QED
    BY <2>1 DEF KeysFollowAuth, AuthAfter
<1> QED
  BY <1>4, <1>5 DEF FlagsInv

LEMMA FlagsEvent ==
  ASSUME TypeOK, FlagsInv, ReceiveEvent
  PROVE  FlagsInv'
<1> DEFINE what == Head(air).what
<1>1. /\ air # <<>> /\ air' = Tail(air) /\ UNCHANGED <<script, associated, keyed>>
      /\ UpdateFlags(what)
  BY DEF ReceiveEvent, radio
<1>2. /\ Head(air) = air[1] /\ Len(air) \in Nat \ {0}
  BY <1>1, Taken DEF TypeOK
<1>3. what = "PSK_SUP" => auth_ok
  <2>1. what = "PSK_SUP" => AuthAfter(air, 1 - 1)
    BY <1>2 DEF FlagsInv, KeysFollowAuth
  <2> QED
    BY <2>1 DEF AuthAfter, FlagAfter
<1> HIDE DEF what
<1>4. /\ auth_ok \in BOOLEAN /\ join_ok \in BOOLEAN /\ key_exchange_ok \in BOOLEAN
      /\ link <=> join_ok /\ key_exchange_ok
  BY DEF TypeOK, FlagsInv
<1>5. /\ auth_ok' = Updated(auth_ok, what, {"AUTH"}, AuthClears)
      /\ join_ok' = Updated(join_ok, what, {"JOIN"}, {"LINK_DOWN"})
      /\ key_exchange_ok' = Updated(key_exchange_ok, what, {"PSK_SUP"}, KeyClears)
      /\ link' <=> join_ok' /\ key_exchange_ok'
  <2> USE DEF UpdateFlags, Updated, AuthClears, KeyClears
  <2>1. CASE what = "LINK_DOWN"
    BY <1>1, <1>4, <2>1 DEF LinkDown, UpdateLink
  <2>2. CASE what \in {"AUTH", "AUTH_FAIL"}
    BY <1>1, <1>4, <2>2 DEF Authenticated, KeepLink
  <2>3. CASE what = "JOIN"
    BY <1>1, <1>4, <2>3 DEF JoinEvent, UpdateLink
  <2>4. CASE what \in {"PSK_SUP", "PSK_SUP_ABORT", "PSK_SUP_FAIL"}
    BY <1>1, <1>3, <1>4, <2>4 DEF KeyExchange, UpdateLink
  <2>5. CASE what \in {"SET_SSID", "SET_SSID_FAIL", "NO_NETWORKS"}
    BY <1>1, <1>4, <2>5 DEF flags
  <2> QED
    BY <1>1, <2>1, <2>2, <2>3, <2>4, <2>5
<1> QED
  BY <1>1, <1>2, <1>5, FlagsRead DEF what

LEMMA FlagsAnswer ==
  ASSUME TypeOK, FlagsInv, ReceiveAnswer
  PROVE  FlagsInv'
<1>1. /\ air # <<>> /\ air' = Tail(air) /\ UNCHANGED <<script, associated, keyed>>
      /\ UNCHANGED <<auth_ok, join_ok, key_exchange_ok, link>> /\ Head(air).what \in Commands
  BY DEF ReceiveAnswer, radio, flags
<1>2. Head(air) = air[1]
  BY <1>1, Taken DEF TypeOK
<1>3. /\ auth_ok \in BOOLEAN /\ join_ok \in BOOLEAN /\ key_exchange_ok \in BOOLEAN
      /\ link <=> join_ok /\ key_exchange_ok
  BY DEF TypeOK, FlagsInv
<1>4. /\ auth_ok' = Updated(auth_ok, air[1].what, {"AUTH"}, AuthClears)
      /\ join_ok' = Updated(join_ok, air[1].what, {"JOIN"}, {"LINK_DOWN"})
      /\ key_exchange_ok' = Updated(key_exchange_ok, air[1].what, {"PSK_SUP"}, KeyClears)
      /\ link' <=> join_ok' /\ key_exchange_ok'
  BY <1>1, <1>2, <1>3 DEF Updated, AuthClears, KeyClears, Commands
<1> QED
  BY <1>1, <1>4, FlagsRead

(* The radio answers: nothing that bears on the flags. *)
LEMMA FlagsAnswered ==
  ASSUME NEW s \in Seq(Messages), NEW c \in Commands, AnswerTo(c) \in Messages
  PROVE  LET t == Append(s, AnswerTo(c)) IN
         /\ AuthAfter(t, Len(t)) <=> AuthAfter(s, Len(s))
         /\ JoinAfter(t, Len(t)) <=> JoinAfter(s, Len(s))
         /\ KeyAfter(t, Len(t)) <=> KeyAfter(s, Len(s))
         /\ KeysFollowAuth(s) => KeysFollowAuth(t)
<1>1. /\ AnswerTo(c).what \notin {"AUTH", "JOIN", "PSK_SUP", "LINK_DOWN"}
      /\ AnswerTo(c).what \notin AuthClears /\ AnswerTo(c).what \notin KeyClears
  BY DEF AnswerTo, Event, Commands, AuthClears, KeyClears
<1> QED
  BY <1>1, FlagsAppended DEF Updated

(* The link goes down: nothing is left of any flag. *)
LEMMA FlagsDropped ==
  ASSUME NEW s \in Seq(Messages), Event("LINK_DOWN", attempt) \in Messages
  PROVE  LET t == Append(s, Event("LINK_DOWN", attempt)) IN
         /\ ~ JoinAfter(t, Len(t)) /\ ~ KeyAfter(t, Len(t))
         /\ KeysFollowAuth(s) => KeysFollowAuth(t)
<1>1. Event("LINK_DOWN", attempt).what = "LINK_DOWN"
  BY DEF Event
<1> QED
  BY <1>1, FlagsAppended DEF Updated, KeyClears

(* FlagsInv, of what the radio does with the flags as they are. *)
LEMMA FlagsOfRadio ==
  ASSUME FlagsInv, UNCHANGED <<auth_ok, join_ok, key_exchange_ok, link>>,
         JoinAfter(air', Len(air')) <=> associated',
         KeyAfter(air', Len(air')) <=> keyed',
         script' \in Authenticating => AuthAfter(air', Len(air')),
         KeysFollowAuth(air')
  PROVE  FlagsInv'
BY DEF FlagsInv, KeysFollowAuth, AuthAfter, JoinAfter, KeyAfter, FlagAfter

LEMMA FlagsStep ==
  ASSUME TypeOK, ScriptInv, FlagsInv, Next
  PROVE  FlagsInv'
<1> DEFINE down == Event("LINK_DOWN", attempt)
<1>1. air \in Seq(Messages) /\ down \in Messages /\ \A c \in Commands : AnswerTo(c) \in Messages
  BY MessageTypes, Names DEF TypeOK
<1>2. ASSUME \/ CallConnect \/ BeginJoin \/ Hear \/ JoinSucceeds \/ JoinFails \/ FlashLed
             \/ LedWritten \/ JoinTimesOut \/ PauseEnds \/ LinkIsUp \/ LinkIsDown \/ Configured
             \/ DhcpTimesOut \/ Rejoin \/ Lease \/ LeaseLost
      PROVE  FlagsInv'
  BY <1>2, FlagsSteady
  DEF CallConnect, BeginJoin, Hear, JoinSucceeds, JoinFails, FlashLed, LedWritten, JoinTimesOut,
      PauseEnds, LinkIsUp, LinkIsDown, Configured, DhcpTimesOut, Rejoin, Lease, LeaseLost,
      flags, radio
<1>3. CASE ReceiveEvent
  BY <1>3, FlagsEvent
<1>4. CASE ReceiveAnswer
  BY <1>4, FlagsAnswer
<1>5. CASE RadioConfigures \/ RadioJoins(Successes \cup Failures)
  <2>1. PICK c \in Commands : air' = Append(air, AnswerTo(c))
    BY <1>5, Names DEF RadioConfigures, RadioJoins
  <2>2. /\ UNCHANGED <<auth_ok, join_ok, key_exchange_ok, link, associated, keyed>>
        /\ script' \in Authenticating => script \in Authenticating
    BY <1>5, Kinds DEF RadioConfigures, RadioJoins, flags, radio
  <2> QED
    BY <1>1, <2>1, <2>2, FlagsAnswered, FlagsOfRadio DEF FlagsInv
<1>6. CASE RadioLeaves
  <2>1. /\ UNCHANGED <<auth_ok, join_ok, key_exchange_ok, link>>
        /\ ~ associated' /\ ~ keyed' /\ script' \notin Authenticating
    BY <1>6, Kinds DEF RadioLeaves, flags
  <2>2. associated' \in BOOLEAN /\ keyed' \in BOOLEAN
    BY <1>6 DEF RadioLeaves
  <2>3. ~ associated => ~ keyed
    BY DEF ScriptInv
  <2>4. "Disassoc" \in Commands /\ AnswerTo("Disassoc") \in Messages
    BY <1>1, Names
  <2> DEFINE quiet(s) == ~ JoinAfter(s, Len(s)) /\ ~ KeyAfter(s, Len(s)) /\ KeysFollowAuth(s)
             answered(s) == Append(s, AnswerTo("Disassoc"))
  <2>5. \A s \in Seq(Messages) : answered(s) \in Seq(Messages) /\ Append(s, down) \in Seq(Messages)
    BY <1>1, <2>4, Appended
  <2>6. \A s \in Seq(Messages) : quiet(s) => quiet(answered(s))
    BY <2>4, FlagsAnswered
  <2>7. \A s \in Seq(Messages) : KeysFollowAuth(s) => KeysFollowAuth(answered(s))
    BY <2>4, FlagsAnswered
  <2>8. \A s \in Seq(Messages) : KeysFollowAuth(s) => quiet(Append(s, down))
    BY <1>1, FlagsDropped
  <2>9. KeysFollowAuth(air) /\ (~ associated => quiet(air))
    BY <2>3 DEF FlagsInv
  <2>10. \/ ~ associated /\ air' = answered(air)
         \/ air' = answered(Append(air, down))
         \/ air' = Append(answered(air), down)
    BY <1>6, Leaving
  <2> HIDE DEF quiet, answered, down
  <2>11. quiet(air')
    BY <1>1, <2>5, <2>6, <2>7, <2>8, <2>9, <2>10
  <2> QED
    BY <2>1, <2>11, FlagsOfRadio DEF quiet
<1>7. CASE RadioReports
  <2> DEFINE what == Head(script)
             rest == Tail(script)
             e == Event(what, attempt)
  <2>1. /\ script \in Unjoined \cup Joined /\ script' = rest /\ air' = Append(air, e)
        /\ UNCHANGED <<auth_ok, join_ok, key_exchange_ok, link>>
        /\ associated' = CASE what = "JOIN" -> TRUE [] what = "LINK_DOWN" -> FALSE
                           [] OTHER -> associated
        /\ keyed' = (keyed \/ what = "PSK_SUP")
    BY <1>7 DEF RadioReports, ScriptInv, flags
  <2>2. GoesOn(script, what, rest)
    BY <2>1, ScriptGoesOn
  <2>3. keyed => what = "SET_SSID"
    BY <2>1, Tails DEF ScriptInv, Unjoined, Joined
  <2>4. e.what = what /\ e \in Messages
    <3>1. what \in Whats
      BY <1>7, Taken DEF RadioReports, TypeOK
    <3> QED
      BY <3>1, MessageTypes DEF Event
  <2> HIDE DEF what, rest, e
  <2>5. /\ AuthAfter(air', Len(air')) <=> Updated(AuthAfter(air, Len(air)), what, {"AUTH"}, AuthClears)
        /\ JoinAfter(air', Len(air')) <=> Updated(associated, what, {"JOIN"}, {"LINK_DOWN"})
        /\ KeyAfter(air', Len(air')) <=> Updated(keyed, what, {"PSK_SUP"}, KeyClears)
        /\ (what = "PSK_SUP" => AuthAfter(air, Len(air))) => KeysFollowAuth(air')
    BY <1>1, <2>1, <2>4, FlagsAppended DEF FlagsInv, Updated
  <2>6. what = "PSK_SUP" => script \in Authenticating
    BY <2>2 DEF GoesOn
  <2>7. rest \in Authenticating =>
          what = "AUTH" \/ (what \notin AuthClears /\ script \in Authenticating)
    BY <2>2, Kinds DEF GoesOn, AuthClears
  <2>8. script' \in Authenticating => AuthAfter(air', Len(air'))
    BY <2>1, <2>5, <2>7 DEF FlagsInv, Updated
  <2>9. JoinAfter(air', Len(air')) <=> associated'
    BY <2>1, <2>5 DEF Updated
  <2>10. KeyAfter(air', Len(air')) <=> keyed'
    BY <2>1, <2>3, <2>5 DEF Updated, KeyClears
  <2> QED
    BY <2>1, <2>5, <2>6, <2>8, <2>9, <2>10, FlagsOfRadio DEF FlagsInv
<1>8. CASE RadioLosesLink
  <2>1. /\ UNCHANGED <<auth_ok, join_ok, key_exchange_ok, link>> /\ air' = Append(air, down)
        /\ ~ associated' /\ ~ keyed' /\ script' \notin Authenticating
    BY <1>8, Kinds DEF RadioLosesLink, flags
  <2> QED
    BY <1>1, <2>1, FlagsDropped, FlagsOfRadio DEF FlagsInv
<1>9. CASE BudgetExpires
  <2>1. /\ ~ auth_ok' /\ ~ join_ok' /\ ~ key_exchange_ok' /\ ~ link' /\ air' = <<>>
        /\ ~ associated' /\ ~ keyed' /\ script' \notin Authenticating
    BY <1>9, Kinds DEF BudgetExpires
  <2>2. Len(air') = 0
    BY <2>1, Nothing
  <2> QED
    BY <2>1, <2>2 DEF FlagsInv, KeysFollowAuth, JoinAfter, KeyAfter, FlagAfter
<1> QED
  BY <1>2, <1>3, <1>4, <1>5, <1>6, <1>7, <1>8, <1>9 DEF Next, Driver, Environment

-----------------------------------------------------------------------------
(* What a listener hears.                                                  *)

LEMMA DecidingIsWanted ==
  ASSUME NEW m, Decides(m)
  PROVE  Wanted(m.what) /\ m.what \notin Commands
BY DEF Decides, Succeeds, Fails, Wanted, Commands

(* One more event in the air. *)
LEMMA HeardAppended ==
  ASSUME NEW q, NEW s \in Seq(Messages), NEW e \in Messages
  PROVE  /\ Decides(e) => DecidesLast(q, Append(s, e))
         /\ DecidesLast(q, s) /\ Wanted(e.what) => DecidesLastButOne(q, Append(s, e))
         /\ DecidesLast(q, s) /\ ~ Wanted(e.what) => DecidesLast(q, Append(s, e))
         /\ DecidesLastButOne(q, s) /\ ~ Wanted(e.what) => DecidesLastButOne(q, Append(s, e))
<1> DEFINE t == Append(s, e)
           n == Len(s) + 1
<1>1. /\ Len(t) = n /\ Len(s) \in Nat
      /\ \A i \in 1 .. Len(s) : t[i] = s[i]
      /\ t[n] = e
  BY Appended
<1> HIDE DEF t
<1>2. /\ \A j \in 1 .. Len(t) : (j \in 1 .. Len(s) /\ t[j] = s[j]) \/ j = n
      /\ n \in 1 .. Len(t) /\ n + 1 .. Len(t) = {}
      /\ \A i \in 1 .. Len(s) : i \in 1 .. Len(t) /\ i < n
  BY <1>1
<1>3. \A i \in 1 .. Len(s) : \A j \in i + 1 .. Len(t) :
        (j \in i + 1 .. Len(s) /\ t[j] = s[j]) \/ j = n
  BY <1>1
<1> HIDE DEF n
<1>4. Decides(e) => DecidesLast(q, t)
  BY <1>1, <1>2 DEF DecidesLast
<1>5. ASSUME DecidesLast(q, s), Wanted(e.what)
      PROVE  DecidesLastButOne(q, t)
  <2>1. CASE \E i \in 1 .. Len(s) :
               Decides(s[i]) /\ \A j \in i + 1 .. Len(s) : ~ Wanted(s[j].what)
    <3>1. PICK i \in 1 .. Len(s) :
            Decides(s[i]) /\ \A j \in i + 1 .. Len(s) : ~ Wanted(s[j].what)
      BY <2>1
    <3>2. i \in 1 .. Len(t) /\ n \in 1 .. Len(t) /\ i < n /\ Decides(t[i])
      BY <1>1, <1>2, <3>1
    <3>3. \A j \in i + 1 .. Len(t) : j # n => ~ Wanted(t[j].what)
      BY <1>3, <3>1
    <3> QED
      BY <3>2, <3>3 DEF DecidesLastButOne
  <2>2. CASE /\ q # <<>> /\ Decides(q[Len(q)])
             /\ \A j \in 1 .. Len(s) : ~ Wanted(s[j].what)
    <3>1. \A j \in 1 .. Len(t) : j # n => ~ Wanted(t[j].what)
      BY <1>2, <2>2
    <3> QED
      BY <1>2, <2>2, <3>1 DEF DecidesLastButOne
  <2> QED
    BY <1>5, <2>1, <2>2 DEF DecidesLast
<1>6. ASSUME ~ Wanted(e.what)
      PROVE  /\ \A j \in 1 .. Len(t) : (j \in 1 .. Len(s) => ~ Wanted(s[j].what)) => ~ Wanted(t[j].what)
             /\ \A i \in 1 .. Len(s) : \A j \in i + 1 .. Len(t) :
                  (j \in i + 1 .. Len(s) => ~ Wanted(s[j].what)) => ~ Wanted(t[j].what)
  BY <1>1, <1>2, <1>3, <1>6
<1>7. ASSUME DecidesLast(q, s), ~ Wanted(e.what)
      PROVE  DecidesLast(q, t)
  BY <1>1, <1>2, <1>6, <1>7 DEF DecidesLast
<1>8. ASSUME DecidesLastButOne(q, s), ~ Wanted(e.what)
      PROVE  DecidesLastButOne(q, t)
  <2>1. CASE \E i, m \in 1 .. Len(s) :
               /\ i < m /\ Decides(s[i])
               /\ \A j \in i + 1 .. Len(s) : j # m => ~ Wanted(s[j].what)
    <3>1. PICK i \in 1 .. Len(s), m \in 1 .. Len(s) :
               /\ i < m /\ Decides(s[i])
               /\ \A j \in i + 1 .. Len(s) : j # m => ~ Wanted(s[j].what)
      BY <2>1
    <3>2. i \in 1 .. Len(t) /\ m \in 1 .. Len(t) /\ Decides(t[i])
      BY <1>1, <1>2, <3>1
    <3>3. \A j \in i + 1 .. Len(t) : j # m => ~ Wanted(t[j].what)
      BY <1>1, <1>3, <1>8, <3>1
    <3> QED
      BY <3>1, <3>2, <3>3 DEF DecidesLastButOne
  <2>2. CASE \E m \in 1 .. Len(s) :
               /\ q # <<>> /\ Decides(q[Len(q)])
               /\ \A j \in 1 .. Len(s) : j # m => ~ Wanted(s[j].what)
    <3>1. PICK m \in 1 .. Len(s) :
               /\ q # <<>> /\ Decides(q[Len(q)])
               /\ \A j \in 1 .. Len(s) : j # m => ~ Wanted(s[j].what)
      BY <2>2
    <3>2. \A j \in 1 .. Len(t) : j # m => ~ Wanted(t[j].what)
      BY <1>1, <1>2, <1>8, <3>1
    <3> QED
      BY <1>2, <3>1, <3>2 DEF DecidesLastButOne
  <2>3. CASE /\ Len(q) >= 2 /\ Decides(q[Len(q) - 1])
             /\ \A j \in 1 .. Len(s) : ~ Wanted(s[j].what)
    BY <1>6, <1>8, <2>3 DEF DecidesLastButOne
  <2> QED
    BY <1>8, <2>1, <2>2, <2>3 DEF DecidesLastButOne
<1> QED
  BY <1>4, <1>5, <1>7, <1>8 DEF t

(* An event or an answer that goes to nobody. *)
LEMMA HeardSkipped ==
  ASSUME NEW q, NEW s \in Seq(Messages), s # <<>>, ~ Decides(s[1]),
         q = <<>> \/ ~ Wanted(s[1].what)
  PROVE  /\ DecidesLast(q, s) => DecidesLast(q, Tail(s))
         /\ DecidesLastButOne(q, s) => DecidesLast(q, Tail(s)) \/ DecidesLastButOne(q, Tail(s))
<1> DEFINE t == Tail(s)
<1>1. /\ Len(t) = Len(s) - 1 /\ Len(s) \in Nat \ {0}
      /\ \A i \in 1 .. Len(s) - 1 : t[i] = s[i + 1]
  BY Taken
<1> HIDE DEF t
<1>2. \A j \in 1 .. Len(t) : j + 1 \in 1 .. Len(s) /\ t[j] = s[j + 1]
  BY <1>1
<1>3. ASSUME NEW i \in 1 .. Len(s), i # 1
      PROVE  /\ i - 1 \in 1 .. Len(t) /\ t[i - 1] = s[i]
             /\ \A j \in i - 1 + 1 .. Len(t) : j + 1 \in i + 1 .. Len(s) /\ t[j] = s[j + 1]
  <2>1. i - 1 \in 1 .. Len(t) /\ i - 1 + 1 = i
    BY <1>1, <1>3
  <2>2. \A j \in i .. Len(t) : j + 1 \in i + 1 .. Len(s) /\ j \in 1 .. Len(t)
    BY <1>1
  <2> QED
    BY <1>2, <2>1, <2>2
<1>4. ASSUME DecidesLast(q, s)
      PROVE  DecidesLast(q, t)
  <2>1. CASE \E i \in 1 .. Len(s) :
               Decides(s[i]) /\ \A j \in i + 1 .. Len(s) : ~ Wanted(s[j].what)
    <3>1. PICK i \in 1 .. Len(s) :
            Decides(s[i]) /\ \A j \in i + 1 .. Len(s) : ~ Wanted(s[j].what)
      BY <2>1
    <3>2. i # 1
      BY <3>1
    <3>3. i - 1 \in 1 .. Len(t) /\ Decides(t[i - 1])
          /\ \A j \in i - 1 + 1 .. Len(t) : ~ Wanted(t[j].what)
      BY <1>3, <3>1, <3>2
    <3> QED
      BY <3>3 DEF DecidesLast
  <2>2. CASE /\ q # <<>> /\ Decides(q[Len(q)])
             /\ \A j \in 1 .. Len(s) : ~ Wanted(s[j].what)
    BY <1>2, <2>2 DEF DecidesLast
  <2> QED
    BY <1>4, <2>1, <2>2 DEF DecidesLast
<1>5. ASSUME DecidesLastButOne(q, s)
      PROVE  DecidesLast(q, t) \/ DecidesLastButOne(q, t)
  <2>1. CASE \E i, m \in 1 .. Len(s) :
               /\ i < m /\ Decides(s[i])
               /\ \A j \in i + 1 .. Len(s) : j # m => ~ Wanted(s[j].what)
    <3>1. PICK i \in 1 .. Len(s), m \in 1 .. Len(s) :
               /\ i < m /\ Decides(s[i])
               /\ \A j \in i + 1 .. Len(s) : j # m => ~ Wanted(s[j].what)
      BY <2>1
    <3>2. i # 1 /\ m # 1 /\ i - 1 < m - 1
      BY <3>1
    <3>3. i - 1 \in 1 .. Len(t) /\ m - 1 \in 1 .. Len(t) /\ Decides(t[i - 1])
      BY <1>3, <3>1, <3>2
    <3>4. \A j \in i - 1 + 1 .. Len(t) : j # m - 1 => ~ Wanted(t[j].what)
      <4>1. ASSUME NEW j \in i - 1 + 1 .. Len(t), j # m - 1
            PROVE  j + 1 \in i + 1 .. Len(s) /\ t[j] = s[j + 1] /\ j + 1 # m
        BY <1>1, <1>3, <3>2, <4>1
      <4> QED
        BY <3>1, <4>1
    <3> QED
      BY <3>2, <3>3, <3>4 DEF DecidesLastButOne
  <2>2. CASE \E m \in 1 .. Len(s) :
               /\ q # <<>> /\ Decides(q[Len(q)])
               /\ \A j \in 1 .. Len(s) : j # m => ~ Wanted(s[j].what)
    <3>1. PICK m \in 1 .. Len(s) :
               /\ q # <<>> /\ Decides(q[Len(q)])
               /\ \A j \in 1 .. Len(s) : j # m => ~ Wanted(s[j].what)
      BY <2>2
    <3>2. CASE m = 1
      <4>1. \A j \in 1 .. Len(t) : ~ Wanted(t[j].what)
        BY <1>2, <3>1, <3>2
      <4> QED
        BY <3>1, <4>1 DEF DecidesLast
    <3>3. CASE m # 1
      <4>1. m - 1 \in 1 .. Len(t)
        BY <1>3, <3>3
      <4>2. \A j \in 1 .. Len(t) : j # m - 1 => ~ Wanted(t[j].what)
        <5>1. \A j \in 1 .. Len(t) : j # m - 1 => j + 1 # m
          BY <1>1
        <5> QED
          BY <1>2, <3>1, <5>1
      <4> QED
        BY <3>1, <4>1, <4>2 DEF DecidesLastButOne
    <3> QED
      BY <3>2, <3>3
  <2>3. CASE /\ Len(q) >= 2 /\ Decides(q[Len(q) - 1])
             /\ \A j \in 1 .. Len(s) : ~ Wanted(s[j].what)
    BY <1>2, <2>3 DEF DecidesLastButOne
  <2> QED
    BY <1>5, <2>1, <2>2, <2>3 DEF DecidesLastButOne
<1> QED
  BY <1>4, <1>5 DEF t

(* A wanted event goes to the queue, and its oldest message may go. *)
LEMMA HeardPublished ==
  ASSUME TypeOK, NEW s \in Seq(Messages), s # <<>>, Wanted(s[1].what)
  PROVE  /\ DecidesLast(queue, s) => DecidesLast(Published(s[1]), Tail(s))
         /\ DecidesLastButOne(queue, s) =>
              DecidesLast(Published(s[1]), Tail(s)) \/ DecidesLastButOne(Published(s[1]), Tail(s))
<1> DEFINE t == Tail(s)
           q == Published(s[1])
           kept == IF Len(queue) = QueueSize THEN Tail(queue) ELSE queue
<1>1. /\ Len(t) = Len(s) - 1 /\ Len(s) \in Nat \ {0} /\ s[1] \in Messages
      /\ \A i \in 1 .. Len(s) - 1 : t[i] = s[i + 1]
  BY Taken
<1>2. /\ kept \in Seq(Messages) /\ Len(kept) \in Nat /\ Len(queue) \in Nat
      /\ Len(queue) >= 1 => Len(kept) >= 1 /\ kept[Len(kept)] = queue[Len(queue)]
  <2>1. CASE Len(queue) = QueueSize
    <3>1. queue # <<>> /\ Len(queue) >= 2
      BY <2>1, JoinAssumption, Nothing DEF TypeOK
    <3>2. /\ Tail(queue) \in Seq(Messages) /\ Len(Tail(queue)) = Len(queue) - 1
          /\ \A i \in 1 .. Len(queue) - 1 : Tail(queue)[i] = queue[i + 1]
      BY <3>1, Taken DEF TypeOK
    <3>3. Tail(queue)[Len(queue) - 1] = queue[Len(queue)]
      BY <3>1, <3>2
    <3> QED
      BY <2>1, <3>1, <3>2, <3>3
  <2>2. CASE Len(queue) # QueueSize
    BY <2>2 DEF TypeOK
  <2> QED
    BY <2>1, <2>2
<1> HIDE DEF kept
<1>3. /\ q # <<>> /\ Len(q) = Len(kept) + 1 /\ q[Len(q)] = s[1]
      /\ Len(kept) >= 1 => Len(q) >= 2 /\ q[Len(q) - 1] = kept[Len(kept)]
  <2>1. q = Append(kept, s[1])
    BY DEF Published, kept
  <2> HIDE DEF q
  <2>2. /\ Len(q) = Len(kept) + 1 /\ q # <<>> /\ q[Len(kept) + 1] = s[1]
        /\ \A i \in 1 .. Len(kept) : q[i] = kept[i]
    BY <1>1, <1>2, <2>1, Appended
  <2> QED
    BY <1>2, <2>2
<1> HIDE DEF t, q
<1>4. queue # <<>> => Len(queue) >= 1
  BY <1>2, NoneLeft DEF TypeOK
<1>5. \A j \in 1 .. Len(t) : j + 1 \in 1 .. Len(s) /\ t[j] = s[j + 1]
  BY <1>1
<1>6. ASSUME NEW i \in 1 .. Len(s), i # 1
      PROVE  /\ i - 1 \in 1 .. Len(t) /\ t[i - 1] = s[i]
             /\ \A j \in i - 1 + 1 .. Len(t) : j + 1 \in i + 1 .. Len(s) /\ t[j] = s[j + 1]
  <2>1. i - 1 \in 1 .. Len(t) /\ i - 1 + 1 = i
    BY <1>1, <1>6
  <2>2. \A j \in i .. Len(t) : j + 1 \in i + 1 .. Len(s) /\ j \in 1 .. Len(t)
    BY <1>1
  <2> QED
    BY <1>5, <2>1, <2>2
<1>7. 1 \in 1 .. Len(s)
  BY <1>1
<1>8. ASSUME DecidesLast(queue, s)
      PROVE  DecidesLast(q, t)
  <2>1. PICK i \in 1 .. Len(s) :
          Decides(s[i]) /\ \A j \in i + 1 .. Len(s) : ~ Wanted(s[j].what)
    BY <1>7, <1>8 DEF DecidesLast
  <2>2. CASE i = 1
    <3>1. \A j \in 1 .. Len(t) : j + 1 \in 1 + 1 .. Len(s)
      BY <1>1
    <3>2. \A j \in 1 .. Len(t) : ~ Wanted(t[j].what)
      BY <1>5, <2>1, <2>2, <3>1
    <3> QED
      BY <1>3, <2>1, <2>2, <3>2 DEF DecidesLast
  <2>3. CASE i # 1
    <3>1. i - 1 \in 1 .. Len(t) /\ Decides(t[i - 1])
          /\ \A j \in i - 1 + 1 .. Len(t) : ~ Wanted(t[j].what)
      BY <1>6, <2>1, <2>3
    <3> QED
      BY <3>1 DEF DecidesLast
  <2> QED
    BY <2>2, <2>3
<1>9. ASSUME DecidesLastButOne(queue, s)
      PROVE  DecidesLast(q, t) \/ DecidesLastButOne(q, t)
  <2>1. CASE \E i, m \in 1 .. Len(s) :
               /\ i < m /\ Decides(s[i])
               /\ \A j \in i + 1 .. Len(s) : j # m => ~ Wanted(s[j].what)
    <3>1. PICK i \in 1 .. Len(s), m \in 1 .. Len(s) :
               /\ i < m /\ Decides(s[i])
               /\ \A j \in i + 1 .. Len(s) : j # m => ~ Wanted(s[j].what)
      BY <2>1
    <3>2. m # 1 /\ m - 1 \in 1 .. Len(t)
      BY <1>6, <3>1
    <3>3. \A j \in i - 1 + 1 .. Len(t) : j # m - 1 => ~ Wanted(t[j].what)
      <4>1. ASSUME NEW j \in i - 1 + 1 .. Len(t), j # m - 1
            PROVE  j + 1 \in i + 1 .. Len(s) /\ t[j] = s[j + 1] /\ j + 1 # m
        BY <1>1, <3>2, <4>1
      <4> QED
        BY <3>1, <4>1
    <3>4. CASE i = 1
      <4>1. \A j \in 1 .. Len(t) : j # m - 1 => ~ Wanted(t[j].what)
        BY <3>3, <3>4
      <4> QED
        BY <1>3, <3>1, <3>2, <3>4, <4>1 DEF DecidesLastButOne
    <3>5. CASE i # 1
      <4>1. i - 1 \in 1 .. Len(t) /\ Decides(t[i - 1]) /\ i - 1 < m - 1
        BY <1>6, <3>1, <3>5
      <4> QED
        BY <3>2, <3>3, <4>1 DEF DecidesLastButOne
    <3> QED
      BY <3>4, <3>5
  <2>2. CASE \E m \in 1 .. Len(s) :
               /\ queue # <<>> /\ Decides(queue[Len(queue)])
               /\ \A j \in 1 .. Len(s) : j # m => ~ Wanted(s[j].what)
    <3>1. PICK m \in 1 .. Len(s) :
               /\ queue # <<>> /\ Decides(queue[Len(queue)])
               /\ \A j \in 1 .. Len(s) : j # m => ~ Wanted(s[j].what)
      BY <2>2
    <3>2. m = 1
      BY <1>7, <3>1
    <3>3. \A j \in 1 .. Len(t) : ~ Wanted(t[j].what)
      <4>1. \A j \in 1 .. Len(t) : j + 1 # 1
        BY <1>1
      <4> QED
        BY <1>5, <3>1, <3>2, <4>1
    <3>4. Len(q) >= 2 /\ Decides(q[Len(q) - 1])
      BY <1>2, <1>3, <1>4, <3>1
    <3> QED
      BY <3>3, <3>4 DEF DecidesLastButOne
  <2>3. CASE /\ Len(queue) >= 2 /\ Decides(queue[Len(queue) - 1])
             /\ \A j \in 1 .. Len(s) : ~ Wanted(s[j].what)
    BY <1>7, <2>3
  <2> QED
    BY <1>9, <2>1, <2>2, <2>3 DEF DecidesLastButOne
<1> QED
  BY <1>8, <1>9 DEF t, q

(* A message that decides nothing is heard. *)
LEMMA HeardOn ==
  ASSUME NEW q \in Seq(Messages), q # <<>>, ~ Decides(q[1]), NEW s
  PROVE  /\ DecidesLast(q, s) => DecidesLast(Tail(q), s)
         /\ DecidesLastButOne(q, s) => DecidesLastButOne(Tail(q), s)
<1> DEFINE r == Tail(q)
<1>1. /\ r \in Seq(Messages) /\ Len(r) = Len(q) - 1 /\ Len(q) \in Nat \ {0}
      /\ \A i \in 1 .. Len(q) - 1 : r[i] = q[i + 1]
  BY Taken
<1> HIDE DEF r
<1>2. ASSUME Decides(q[Len(q)])
      PROVE  r # <<>> /\ Decides(r[Len(r)])
  <2>1. Len(q) # 1
    BY <1>2
  <2>2. Len(r) # 0 /\ r[Len(r)] = q[Len(q)]
    BY <1>1, <2>1
  <2> QED
    BY <1>2, <2>2, Nothing
<1>3. ASSUME Len(q) >= 2, Decides(q[Len(q) - 1])
      PROVE  Len(r) >= 2 /\ Decides(r[Len(r) - 1])
  <2>1. Len(q) - 1 # 1
    BY <1>3
  <2>2. Len(r) >= 2 /\ r[Len(r) - 1] = q[Len(q) - 1]
    BY <1>1, <1>3, <2>1
  <2> QED
    BY <1>3, <2>2
<1>4. DecidesLast(q, s) => DecidesLast(r, s)
  BY <1>2 DEF DecidesLast
<1>5. DecidesLastButOne(q, s) => DecidesLastButOne(r, s)
  BY <1>2, <1>3 DEF DecidesLastButOne
<1> QED
  BY <1>4, <1>5 DEF r

(* Nobody listens. *)
LEMMA ListenIdle ==
  ASSUME ListenInv, app \notin {"set_ssid", "listen", "flash"}, UNCHANGED <<enabled, queue>>,
         app' \notin {"set_ssid", "listen", "flash"}
  PROVE  ListenInv'
BY DEF ListenInv, Listening

LEMMA ListenSteady ==
  ASSUME ListenInv, UNCHANGED <<enabled, queue, commands, air, radio>>,
         app' = app \/ {app, app'} \subseteq {"listen", "flash"}
  PROVE  ListenInv'
<1>1. /\ OwnEvents => OwnEvents'
      /\ OwnFailures => OwnFailures'
      /\ Decided => Decided'
  BY DEF OwnEvents, OwnFailures, Decided, Failed, radio
<1>2. (app' \in {"listen", "flash"} <=> app \in {"listen", "flash"})
      /\ (app' = "set_ssid" <=> app = "set_ssid")
  OBVIOUS
<1>3. Listening' <=> Listening
  BY <1>2 DEF Listening
<1> QED
  BY <1>1, <1>2, <1>3 DEF ListenInv

LEMMA ListenHear ==
  ASSUME TypeOK, ListenInv, Hear
  PROVE  ListenInv'
<1> DEFINE r == Tail(queue)
<1>1. /\ app = "listen" /\ queue # <<>> /\ queue' = r /\ ~ Decides(Head(queue))
      /\ UNCHANGED <<app, enabled, air, radio>>
  BY DEF Hear, Decides
<1>2. /\ Len(r) = Len(queue) - 1 /\ Len(queue) \in Nat \ {0} /\ Head(queue) = queue[1]
      /\ \A i \in 1 .. Len(queue) - 1 : r[i] = queue[i + 1]
  BY <1>1, Taken DEF TypeOK
<1>3. OwnEvents /\ OwnFailures /\ Decided
  BY <1>1 DEF ListenInv, Listening
<1>4. /\ DecidesLast(queue, air) => DecidesLast(r, air)
      /\ DecidesLastButOne(queue, air) => DecidesLastButOne(r, air)
  BY <1>1, <1>2, HeardOn DEF TypeOK
<1> HIDE DEF r
<1>5. \A i \in 1 .. Len(r) : i + 1 \in 1 .. Len(queue) /\ r[i] = queue[i + 1]
  BY <1>2
<1>6. OwnEvents' /\ OwnFailures'
  BY <1>1, <1>3, <1>5 DEF OwnEvents, OwnFailures, Failed, radio
<1>7. Decided'
  BY <1>1, <1>3, <1>4 DEF Decided, radio
<1> QED
  BY <1>1, <1>6, <1>7 DEF ListenInv, Listening

LEMMA ListenEvent ==
  ASSUME TypeOK, AnswersInv, ListenInv, ReceiveEvent
  PROVE  ListenInv'
<1> DEFINE t == Tail(air)
           e == Head(air)
<1>1. /\ air # <<>> /\ e.what \notin Commands /\ air' = t
      /\ queue' = (IF enabled /\ Wanted(e.what) THEN Published(e) ELSE queue)
      /\ UNCHANGED <<app, enabled, commands, radio>>
  BY DEF ReceiveEvent
<1>2. /\ air \in Seq(Messages) /\ Len(t) = Len(air) - 1 /\ Len(air) \in Nat \ {0}
      /\ e = air[1] /\ e \in Messages
      /\ \A i \in 1 .. Len(air) - 1 : t[i] = air[i + 1]
  BY <1>1, Taken DEF TypeOK
<1> HIDE DEF e
<1>3. app # "set_ssid"
  BY <1>1, <1>2, Names DEF AnswersInv, Told
<1>4. CASE app \notin {"listen", "flash"}
  <2>1. ~ enabled /\ queue' = queue
    BY <1>1, <1>3, <1>4 DEF ListenInv
  <2> QED
    BY <1>1, <1>3, <1>4, <2>1, ListenIdle
<1>5. CASE app \in {"listen", "flash"}
  <2>1. enabled /\ OwnEvents /\ OwnFailures /\ Decided
    BY <1>5 DEF ListenInv, Listening
  <2>2. ~ Wanted(e.what) => ~ Decides(e)
    BY DecidingIsWanted
  <2>3. /\ DecidesLast(queue, air) => DecidesLast(queue', t)
        /\ DecidesLastButOne(queue, air) => DecidesLast(queue', t) \/ DecidesLastButOne(queue', t)
    <3>1. CASE Wanted(e.what)
      BY <1>1, <1>2, <2>1, <3>1, HeardPublished
    <3>2. CASE ~ Wanted(e.what)
      BY <1>1, <1>2, <2>2, <3>2, HeardSkipped
    <3> QED
      BY <3>1, <3>2
  <2> HIDE DEF t
  <2>4. \A i \in 1 .. Len(t) : i + 1 \in 1 .. Len(air) /\ t[i] = air[i + 1]
    BY <1>2
  <2>5. \A i \in 1 .. Len(queue') : queue'[i] = e \/ \E j \in 1 .. Len(queue) : queue'[i] = queue[j]
    <3> DEFINE kept == IF Len(queue) = QueueSize THEN Tail(queue) ELSE queue
    <3>1. kept \in Seq(Messages) /\ \A i \in 1 .. Len(kept) : \E j \in 1 .. Len(queue) : kept[i] = queue[j]
      <4>1. CASE Len(queue) = QueueSize
        <5>1. queue # <<>>
          BY <4>1, JoinAssumption, Nothing
        <5>2. /\ Tail(queue) \in Seq(Messages) /\ Len(Tail(queue)) = Len(queue) - 1
              /\ Len(queue) \in Nat
              /\ \A i \in 1 .. Len(queue) - 1 : Tail(queue)[i] = queue[i + 1]
          BY <5>1, Taken DEF TypeOK
        <5>3. \A i \in 1 .. Len(queue) - 1 : i + 1 \in 1 .. Len(queue)
          BY <5>2
        <5> QED
          BY <4>1, <5>2, <5>3
      <4>2. CASE Len(queue) # QueueSize
        BY <4>2 DEF TypeOK
      <4> QED
        BY <4>1, <4>2
    <3> HIDE DEF kept
    <3>2. /\ Len(Append(kept, e)) = Len(kept) + 1 /\ Len(kept) \in Nat
          /\ \A i \in 1 .. Len(kept) : Append(kept, e)[i] = kept[i]
          /\ Append(kept, e)[Len(kept) + 1] = e
      BY <1>2, <3>1, Appended
    <3>3. \A i \in 1 .. Len(Append(kept, e)) : i \in 1 .. Len(kept) \/ i = Len(kept) + 1
      BY <3>2
    <3>4. queue' \in {queue, Append(kept, e)}
      BY <1>1 DEF Published, kept
    <3> QED
      BY <3>1, <3>2, <3>3, <3>4
  <2>6. e.attempt = attempt /\ (Fails(e.what) => Failed) /\ 1 \in 1 .. Len(air)
    BY <1>1, <1>2, <2>1 DEF OwnEvents, OwnFailures
  <2>7. OwnEvents'
    <3>1. \A i \in 1 .. Len(queue') : queue'[i].attempt = attempt
      BY <2>1, <2>5, <2>6 DEF OwnEvents
    <3>2. \A i \in 1 .. Len(t) : t[i].what \notin Commands => t[i].attempt = attempt
      BY <2>1, <2>4 DEF OwnEvents
    <3> QED
      BY <1>1, <3>1, <3>2 DEF OwnEvents, radio
  <2>8. OwnFailures'
    BY <1>1, <2>1, <2>4, <2>5, <2>6 DEF OwnFailures, Failed, radio
  <2>9. Decided'
    BY <1>1, <2>1, <2>3 DEF Decided, radio
  <2> QED
    BY <1>1, <1>5, <2>1, <2>7, <2>8, <2>9 DEF ListenInv, Listening
<1> QED
  BY <1>4, <1>5

LEMMA ListenAnswer ==
  ASSUME TypeOK, AnswersInv, ListenInv, ReceiveAnswer
  PROVE  ListenInv'
<1> DEFINE t == Tail(air)
<1>1. /\ air # <<>> /\ Head(air).what \in Commands /\ air' = t /\ UNCHANGED radio
  BY DEF ReceiveAnswer
<1>2. /\ air \in Seq(Messages) /\ Len(t) = Len(air) - 1 /\ Len(air) \in Nat \ {0}
      /\ Head(air) = air[1]
      /\ \A i \in 1 .. Len(air) - 1 : t[i] = air[i + 1]
  BY <1>1, Taken DEF TypeOK
<1>3. CASE app = "prepare" /\ Head(air).what = "Configure"
  <2>1. app' = "set_ssid" /\ enabled' = TRUE /\ queue' = <<>> /\ commands' = Append(commands, "SetSsid")
    BY <1>1, <1>3 DEF ReceiveAnswer, Subscribe, Request
  <2>2. commands' # <<>>
    BY <2>1, Appended, Names DEF TypeOK
  <2> QED
    BY <2>1, <2>2 DEF ListenInv, Listening
<1>4. CASE app = "set_ssid" /\ ~ Told /\ Head(air).what = "SetSsid"
  <2>1. app' = "listen" /\ UNCHANGED <<enabled, queue>>
    BY <1>1, <1>4 DEF ReceiveAnswer, channel
  <2>2. enabled /\ queue = <<>> /\ OwnEvents /\ OwnFailures /\ Decided
    BY <1>4 DEF ListenInv, Listening, Told
  <2>3. ~ Decides(air[1])
    BY <1>1, <1>2, DecidingIsWanted
  <2>4. /\ DecidesLast(queue, air) => DecidesLast(queue, t)
        /\ DecidesLastButOne(queue, air) => DecidesLast(queue, t) \/ DecidesLastButOne(queue, t)
    BY <1>1, <1>2, <2>2, <2>3, HeardSkipped
  <2> HIDE DEF t
  <2>5. \A i \in 1 .. Len(t) : i + 1 \in 1 .. Len(air) /\ t[i] = air[i + 1]
    BY <1>2
  <2>6. OwnEvents' /\ OwnFailures'
    BY <1>1, <2>1, <2>2, <2>5 DEF OwnEvents, OwnFailures, Failed, radio
  <2>7. Decided'
    BY <1>1, <2>1, <2>2, <2>4 DEF Decided, radio
  <2> QED
    BY <2>1, <2>2, <2>6, <2>7 DEF ListenInv, Listening
<1>5. CASE app \in {"leave", "leave_first"}
  <2>1. app' \notin {"set_ssid", "listen", "flash"} /\ UNCHANGED <<enabled, queue>>
    BY <1>5 DEF ReceiveAnswer, channel
  <2> QED
    BY <1>5, <2>1, ListenIdle
<1> QED
  BY <1>1, <1>3, <1>4, <1>5, AnswerRead

(* The radio takes a request: to join, where somebody will listen. *)
LEMMA ListenTake ==
  ASSUME TypeOK, AnswersInv, ListenInv,
         RadioConfigures \/ RadioJoins(Successes \cup Failures) \/ RadioLeaves
  PROVE  ListenInv'
<1>1. /\ commands # <<>> /\ UNCHANGED <<app, enabled, queue>>
  BY DEF RadioConfigures, RadioJoins, RadioLeaves, Take, channel
<1>2. CASE app \notin {"set_ssid", "listen", "flash"}
  BY <1>1, <1>2, ListenIdle
<1>3. CASE app \in {"set_ssid", "listen", "flash"}
  <2>1. Told /\ air = <<>> /\ Head(commands) = "SetSsid" /\ Tail(commands) = <<>>
    BY <1>1, <1>3, CommandTaken
  <2>2. /\ script' \in Successes \cup Failures /\ complete' = FALSE
        /\ air' = Append(air, AnswerTo("SetSsid"))
    BY <2>1 DEF RadioConfigures, RadioJoins, RadioLeaves, Take
  <2>3. app = "set_ssid" /\ enabled /\ queue = <<>>
    BY <2>1 DEF Told, ListenInv
  <2>4. Len(air') = 1 /\ air'[1].what = "SetSsid"
    <3>1. AnswerTo("SetSsid") \in Messages
      BY MessageTypes, Names
    <3> QED
      BY <2>1, <2>2, <3>1, Appended, Nothing DEF TypeOK, AnswerTo, Event
  <2>5. \A i \in 1 .. Len(air') : air'[i].what = "SetSsid"
    BY <2>4
  <2>6. "SetSsid" \in Commands /\ ~ Fails("SetSsid")
    BY DEF Fails, Commands
  <2>7. OwnEvents' /\ OwnFailures'
    <3>1. \A i \in 1 .. Len(queue') : FALSE
      BY <1>1, <2>3, Nothing
    <3> QED
      BY <2>5, <2>6, <3>1 DEF OwnEvents, OwnFailures
  <2>8. Decided'
    BY <2>2, Kinds DEF Decided
  <2> QED
    BY <1>1, <2>3, <2>7, <2>8 DEF ListenInv
<1> QED
  BY <1>2, <1>3

(* What the radio reports is of the attempt it is about, a failure is its  *)
(* own, and it decides before the attempt is over.                         *)
LEMMA ListenReport ==
  ASSUME TypeOK, ScriptInv, ListenInv, RadioReports \/ RadioLosesLink
  PROVE  ListenInv'
<1>1. PICK what \in Whats : air' = Append(air, Event(what, attempt))
                            /\ (RadioReports => what = Head(script))
                            /\ (~ RadioReports => what = "LINK_DOWN")
  <2>1. RadioReports => Head(script) \in Whats
    BY Taken DEF RadioReports, TypeOK
  <2> QED
    BY <2>1, Names DEF RadioReports, RadioLosesLink
<1> DEFINE e == Event(what, attempt)
           t == Append(air, e)
<1>2. air \in Seq(Messages) /\ e \in Messages /\ e.what = what /\ e.attempt = attempt
  BY MessageTypes DEF TypeOK, Event
<1>3. UNCHANGED <<app, enabled, queue, commands, attempt>>
  BY DEF RadioReports, RadioLosesLink, channel
<1>4. Listening' <=> Listening
  BY <1>3 DEF Listening
<1>5. CASE ~ Listening
  BY <1>3, <1>4, <1>5 DEF ListenInv
<1>6. CASE Listening
  <2>1. OwnEvents /\ OwnFailures /\ Decided
    BY <1>6 DEF ListenInv
  <2>2. /\ Decides(e) => DecidesLast(queue, t)
        /\ DecidesLast(queue, air) /\ Wanted(what) => DecidesLastButOne(queue, t)
        /\ DecidesLast(queue, air) /\ ~ Wanted(what) => DecidesLast(queue, t)
        /\ DecidesLastButOne(queue, air) /\ ~ Wanted(what) => DecidesLastButOne(queue, t)
    BY <1>2, HeardAppended
  <2>3. /\ Len(t) = Len(air) + 1 /\ Len(air) \in Nat
        /\ \A i \in 1 .. Len(air) : t[i] = air[i]
        /\ t[Len(air) + 1] = e
    BY <1>2, Appended
  <2>4. \A i \in 1 .. Len(t) : (i \in 1 .. Len(air) /\ t[i] = air[i]) \/ t[i] = e
    BY <2>3
  <2>5. Decides(e) <=> Succeeds(what) \/ Fails(what)
    BY <1>2 DEF Decides
  <2> HIDE DEF t, e
  <2>6. air' = t
    BY <1>1 DEF t, e
  <2>7. OwnEvents'
    BY <1>2, <1>3, <2>1, <2>4, <2>6 DEF OwnEvents
  <2>8. Failed => Failed'
    BY FailedStays
  <2>9. CASE RadioReports
    <3> DEFINE rest == Tail(script)
    <3>1. /\ script \in Unjoined \cup Joined /\ script' = rest /\ what = Head(script)
          /\ complete' = (rest = <<>>)
          /\ associated' = CASE what = "JOIN" -> TRUE [] what = "LINK_DOWN" -> FALSE
                             [] OTHER -> associated
          /\ keyed' = (keyed \/ what = "PSK_SUP")
      BY <1>1, <2>9 DEF RadioReports, ScriptInv
    <3>2. GoesOn(script, what, rest)
      BY <3>1, ScriptGoesOn
    <3>3. /\ script \in Unjoined => ~ associated /\ ~ keyed
          /\ script \in Joined => associated
          /\ script \in Joined /\ script # <<"SET_SSID">> => ~ keyed
      BY Kinds DEF ScriptInv
    <3> HIDE DEF rest
    <3>4. Fails(what) => Failed'
      BY <3>1, <3>2, <3>3 DEF GoesOn, Failed, Fails
    <3>5. OwnFailures'
      BY <1>2, <1>3, <2>1, <2>4, <2>6, <2>8, <3>4 DEF OwnFailures
    <3>6. rest \in {<<"SET_SSID">>, <<"LINK_DOWN">>} => Decides(e)
      BY <2>5, <3>2, Kinds DEF GoesOn, Succeeds, Fails
    <3>7. rest = <<>> => \/ Decides(e)
                         \/ script = <<"SET_SSID">>
                         \/ script = <<"LINK_DOWN">> /\ ~ Wanted(what)
      BY <2>5, <3>2, Kinds DEF GoesOn, Succeeds, Fails, Wanted
    <3>8. Decided'
      BY <1>3, <2>1, <2>2, <2>6, <3>1, <3>6, <3>7 DEF Decided
    <3> QED
      BY <1>3, <2>7, <3>5, <3>8 DEF ListenInv
  <2>10. CASE ~ RadioReports
    <3>1. /\ what = "LINK_DOWN" /\ ~ Wanted(what) /\ ~ Fails(what)
          /\ script' = <<>> /\ complete' = complete
      BY <1>1, <2>10 DEF RadioLosesLink, Wanted, Fails
    <3>2. OwnFailures'
      BY <1>2, <1>3, <2>1, <2>4, <2>6, <2>8, <3>1 DEF OwnFailures
    <3>3. Decided'
      BY <1>3, <2>1, <2>2, <2>6, <3>1, Kinds DEF Decided
    <3> QED
      BY <1>3, <2>7, <3>2, <3>3 DEF ListenInv
  <2> QED
    BY <2>9, <2>10
<1> QED
  BY <1>5, <1>6

LEMMA ListenStep ==
  ASSUME TypeOK, ScriptInv, AnswersInv, ListenInv, Next
  PROVE  ListenInv'
<1>1. ASSUME Lease \/ LeaseLost \/ FlashLed \/ LedWritten
      PROVE  ListenInv'
  BY <1>1, ListenSteady DEF Lease, LeaseLost, FlashLed, LedWritten, channel
<1>2. ASSUME \/ CallConnect \/ BeginJoin \/ PauseEnds \/ LinkIsUp \/ LinkIsDown \/ Configured
             \/ DhcpTimesOut \/ Rejoin
      PROVE  ListenInv'
  <2>1. app \notin {"set_ssid", "listen", "flash"} /\ app' \notin {"set_ssid", "listen", "flash"}
        /\ UNCHANGED <<enabled, queue>>
    BY <1>2 DEF CallConnect, BeginJoin, PauseEnds, LinkIsUp, LinkIsDown, Configured, DhcpTimesOut,
       Rejoin, channel
  <2> QED
    BY <2>1, ListenIdle
<1>3. ASSUME JoinSucceeds \/ JoinFails \/ JoinTimesOut \/ BudgetExpires
      PROVE  ListenInv'
  <2>1. app' \in {"start", "joined", "pause", "leave"} /\ enabled' = FALSE /\ queue' = <<>>
    BY <1>3 DEF JoinSucceeds, JoinFails, JoinTimesOut, BudgetExpires, Unsubscribe
  <2> QED
    BY <2>1 DEF ListenInv, Listening
<1>4. CASE Hear
  BY <1>4, ListenHear
<1>5. CASE ReceiveEvent
  BY <1>5, ListenEvent
<1>6. CASE ReceiveAnswer
  BY <1>6, ListenAnswer
<1>7. CASE RadioConfigures \/ RadioJoins(Successes \cup Failures) \/ RadioLeaves
  BY <1>7, ListenTake
<1>8. CASE RadioReports \/ RadioLosesLink
  BY <1>8, ListenReport
<1> QED
  BY <1>1, <1>2, <1>3, <1>4, <1>5, <1>6, <1>7, <1>8 DEF Next, Driver, Environment

-----------------------------------------------------------------------------
(* The invariant, and what it shows.                                       *)

LEMMA Initially ==
  ASSUME Init
  PROVE  IInv
<1>1. TypeOK
  BY Created DEF Init
<1>2. ScriptInv /\ RestInv
  BY Kinds DEF Init, ScriptInv, RestInv, Quiet, Told
<1>3. AnswersInv
  BY NothingAnswered, <1>1 DEF Init, AnswersInv, Told
<1>4. FlagsInv
  BY Kinds, Nothing DEF Init, FlagsInv, KeysFollowAuth, JoinAfter, KeyAfter, FlagAfter
<1>5. ListenInv
  BY DEF Init, ListenInv, Listening
<1> QED
  BY <1>1, <1>2, <1>3, <1>4, <1>5 DEF IInv

LEMMA Inductive ==
  ASSUME IInv, [Next]_vars
  PROVE  IInv'
<1>1. CASE Next
  BY <1>1, TypeStep, ScriptStep, AnswersStep, RestStep, FlagsStep, ListenStep DEF IInv
<1>2. CASE UNCHANGED vars
  <2>1. UNCHANGED <<app, enabled, queue, auth_ok, join_ok, key_exchange_ok, link, config, commands,
                    air, script, complete, associated, keyed, attempt, decided_by>>
    BY <1>2 DEF vars, channel, flags, radio
  <2>2. TypeOK'
    BY <2>1 DEF IInv, TypeOK
  <2>3. ScriptInv'
    BY <2>1 DEF IInv, ScriptInv
  <2>4. AnswersInv' /\ RestInv' /\ FlagsInv'
    BY <2>1, AnswersSteady, RestSteady, FlagsSteady DEF IInv
  <2>5. ListenInv'
    BY <2>1, ListenSteady DEF IInv, radio
  <2> QED
    BY <2>2, <2>3, <2>4, <2>5 DEF IInv
<1> QED
  BY <1>1, <1>2

(* In every state of a session, the variables have their types, a command  *)
(* is under way only where its caller waits for it or has given it up, the *)
(* radio rests before it is told to join, the runner's flags come to the   *)
(* radio's state once it has read what is in the air, and a listener finds *)
(* there what decides its join.                                            *)
THEOREM Invariance == Spec => []IInv
<1>1. Init => IInv
  BY Initially
<1>2. IInv /\ [Next]_vars => IInv'
  BY Inductive
<1> QED
  BY <1>1, <1>2, PTL DEF Spec

(* The event queue never holds more than its capacity, and no attempt is   *)
(* begun past the bound: the types of the driver's and the radio's state.  *)
THEOREM TypeCorrect == Spec => []TypeOK
<1>1. IInv => TypeOK
  BY DEF IInv
<1> QED
  BY <1>1, Invariance, PTL

(* The driver's link state is the radio's whenever no event waits to be    *)
(* read: handle_irq's flags survive every abandoned join.                  *)
THEOREM LinkCorrect == Spec => []LinkIsTrue
<1>1. IInv => LinkIsTrue
  <2> SUFFICES ASSUME IInv, air = <<>>
               PROVE  link = (associated /\ keyed)
    BY DEF LinkIsTrue
  <2>1. Len(air) = 0
    BY Nothing
  <2>2. (join_ok <=> associated) /\ (key_exchange_ok <=> keyed)
    BY <2>1 DEF IInv, FlagsInv, JoinAfter, KeyAfter, FlagAfter
  <2>3. link \in BOOLEAN /\ associated \in BOOLEAN /\ keyed \in BOOLEAN
    BY DEF IInv, TypeOK
  <2>4. link <=> join_ok /\ key_exchange_ok
    BY DEF IInv, FlagsInv
  <2> QED
    BY <2>2, <2>3, <2>4
<1> QED
  BY <1>1, Invariance, PTL

(* A join that still listens when its attempt is over and read finds a     *)
(* message that decides it: publish_immediate gave up none that did.       *)
THEOREM OutcomeCorrect == Spec => []OutcomeHeard
<1>1. IInv => OutcomeHeard
  <2> SUFFICES ASSUME IInv, app \in {"listen", "flash"}, complete, air = <<>>
               PROVE  \E i \in 1 .. Len(queue) : Succeeds(queue[i].what) \/ Fails(queue[i].what)
    BY DEF OutcomeHeard
  <2>1. Len(air) = 0 /\ \A i \in 1 .. Len(air) : FALSE
    BY Nothing
  <2>2. DecidesLast(queue, air) \/ DecidesLastButOne(queue, air)
    BY DEF IInv, ListenInv, Listening, Decided
  <2>3. Len(queue) \in Nat /\ (queue # <<>> => Len(queue) # 0)
    BY NoneLeft DEF IInv, TypeOK
  <2>4. \/ Len(queue) \in 1 .. Len(queue) /\ Decides(queue[Len(queue)])
        \/ Len(queue) - 1 \in 1 .. Len(queue) /\ Decides(queue[Len(queue) - 1])
    BY <2>1, <2>2, <2>3 DEF DecidesLast, DecidesLastButOne
  <2> QED
    BY <2>4 DEF Decides
<1> QED
  BY <1>1, Invariance, PTL

(* The event that ends wait_for_join is of the attempt that waits, although *)
(* events carry no mark and attempts are dropped at any moment.            *)
THEOREM DecidedCorrect == Spec => DecidedByOwnAttempt
<1>1. IInv /\ [Next]_vars => [JoinSucceeds \/ JoinFails => decided_by' = attempt]_vars
  <2> SUFFICES ASSUME IInv, JoinSucceeds \/ JoinFails
               PROVE  decided_by' = attempt
    OBVIOUS
  <2>1. app = "listen" /\ queue # <<>> /\ decided_by' = Head(queue).attempt
    BY DEF JoinSucceeds, JoinFails
  <2>2. Head(queue) = queue[1] /\ 1 \in 1 .. Len(queue)
    BY <2>1, Taken DEF IInv, TypeOK
  <2> QED
    BY <2>1, <2>2 DEF IInv, ListenInv, Listening, OwnEvents
<1> QED
  BY <1>1, Invariance, PTL DEF Spec, DecidedByOwnAttempt

-----------------------------------------------------------------------------
(* connect_wifi is what its caller takes it to be.                         *)

LEMMA StepRefines ==
  ASSUME app \in Phases, [Next]_vars
  PROVE  [Abstract!Next]_ConnectPhase
<1> USE DEF Abstract!Next, Abstract!Go, Abstract!Call, Abstract!JoinFails, Abstract!JoinTimesOut,
        Abstract!JoinSucceeds, Abstract!LinkUp, Abstract!DhcpTimesOut, Abstract!Left,
        Abstract!PauseEnds, Abstract!Returns, Abstract!Dropped, Abstract!Outside,
        ConnectPhase, Joining
<1>1. CASE UNCHANGED app
  BY <1>1
<1>2. ASSUME CallConnect \/ BeginJoin \/ PauseEnds
      PROVE  [Abstract!Next]_ConnectPhase
  BY <1>2 DEF CallConnect, BeginJoin, PauseEnds
<1>3. ASSUME JoinSucceeds \/ JoinFails \/ JoinTimesOut \/ FlashLed \/ LedWritten
      PROVE  [Abstract!Next]_ConnectPhase
  BY <1>3 DEF JoinSucceeds, JoinFails, JoinTimesOut, FlashLed, LedWritten
<1>4. ASSUME LinkIsUp \/ LinkIsDown
      PROVE  [Abstract!Next]_ConnectPhase
  BY <1>4 DEF LinkIsUp, LinkIsDown
<1>5. ASSUME Configured \/ DhcpTimesOut \/ Rejoin
      PROVE  [Abstract!Next]_ConnectPhase
  BY <1>5 DEF Configured, DhcpTimesOut, Rejoin
<1>6. CASE ReceiveAnswer
  BY <1>6 DEF ReceiveAnswer
<1>7. CASE BudgetExpires
  BY <1>7 DEF BudgetExpires
<1> QED
  BY <1>1, <1>2, <1>3, <1>4, <1>5, <1>6, <1>7
  DEF Next, Driver, Environment, Hear, ReceiveEvent, Lease, LeaseLost, RadioConfigures, RadioJoins,
      RadioLeaves, RadioReports, RadioLosesLink, vars

(* The join, the runner and the radio do together what ConnectWifi says    *)
(* of connect_wifi, and so what UploadCycle takes it to do.                *)
THEOREM Implementation == Spec => ImplementsConnectWifi
<1>1. Init => Abstract!Init
  BY DEF Init, Abstract!Init, ConnectPhase, Joining
<1>2. TypeOK /\ [Next]_vars => [Abstract!Next]_ConnectPhase
  BY StepRefines DEF TypeOK
<1> QED
  BY <1>1, <1>2, TypeCorrect, PTL DEF Spec, ImplementsConnectWifi, Abstract!Spec
=============================================================================

------------------------- MODULE DeviceLoginProofs -------------------------
(***************************************************************************)
(* Theorems about DeviceLogin, for any number of codes and retries, any    *)
(* lifetime and pace, and any number of requests that go wrong.            *)
(***************************************************************************)
EXTENDS DeviceLogin, SequenceTheorems, TLAPS

Polling == {"wait", "poll"}

\* A code is shown for every attempt, but for the one about to be made.
Counted ==
  /\ At("start") => Len(client.shown) = client.attempt - 1
  /\ client.pc \in Polling \cup {"identify", "done"} => Len(client.shown) = client.attempt
  /\ Len(client.shown) <= client.attempt

\* The timer runs as long as the code has to rest, and the interval follows its pace.
InPace == client.pc \in Polling =>
  /\ client.interval <= codes[Current].pace
  /\ faults = 0 => client.interval = codes[Current].pace
  /\ At("wait") => codes[Current].since + client.wait >= client.interval
  /\ At("poll") /\ client.tries = 0 => codes[Current].since >= client.interval

\* There is no token before the user has approved the code, and then it is that code's.
Holding ==
  /\ client.pc \in Polling \cup {"start"} => client.token = 0
  /\ client.pc \in {"identify", "done"} =>
       client.token = Current /\ codes[Current].status = "spent"

\* Unless a request went wrong, the earlier codes have all expired.
Expired(k) == codes[client.shown[k]].left = 0
UsedUp == faults = 0 =>
  /\ At("start") => \A k \in 1 .. Len(client.shown) : Expired(k)
  /\ client.pc \in Polling => \A k \in 1 .. Len(client.shown) - 1 : Expired(k)

\* Why a login has failed, and that it had a code by then.
Explained == At("failed") /\ faults = 0 =>
  /\ Len(client.shown) > 0
  /\ \/ codes[Current].status = "denied"
     \/ Len(client.shown) = MaxAttempts /\ \A k \in 1 .. Len(client.shown) : Expired(k)

\* What the server has given and the login does not have.
NoSpare == faults = 0 /\ ~At("cancelled") =>
  \A n \in 1 .. Len(codes) : codes[n].status = "spent" => client.token = n
NoneUnseen == \/ Len(codes) <= Len(client.shown) + faults
              \/ CutOffStart /\ Len(codes) <= Len(client.shown) + faults + 1

LoginInv == Counted /\ InPace /\ Holding /\ UsedUp /\ Explained /\ NoSpare /\ NoneUnseen

IInv == TypeOK /\ LoginInv

----------------------------------------------------------------------------
(* The shape of the state. *)

LEMMA CodeFacts ==
  ASSUME TypeOK
  PROVE  /\ codes \in Seq(Code) /\ Len(codes) \in Nat /\ DOMAIN codes = 1 .. Len(codes)
         /\ \A n \in 1 .. Len(codes) :
              /\ codes[n] \in Code
              /\ codes[n].left \in 0 .. Lifetime
              /\ codes[n].since \in 0 .. MaxInterval
              /\ codes[n].pace \in Interval .. MaxInterval
<1>1. codes \in Seq(Code)
  BY DEF TypeOK
<1>2. Len(codes) \in Nat /\ DOMAIN codes = 1 .. Len(codes)
  BY <1>1, LenProperties
<1>3. \A n \in 1 .. Len(codes) : codes[n] \in Code
  BY <1>1, ElementOfSeq
<1> QED
  BY <1>1, <1>2, <1>3 DEF Code

LEMMA ClientFacts ==
  ASSUME TypeOK
  PROVE  /\ client \in Client
         /\ client.attempt \in 1 .. MaxAttempts
         /\ client.interval \in 0 .. MaxInterval /\ client.wait \in 0 .. MaxInterval
         /\ client.tries \in 0 .. Retries /\ client.token \in 0 .. Len(codes)
         /\ client.shown \in Seq(1 .. Len(codes)) /\ Len(client.shown) \in Nat
         /\ DOMAIN client.shown = 1 .. Len(client.shown)
         /\ \A k \in 1 .. Len(client.shown) : client.shown[k] \in 1 .. Len(codes)
         /\ Len(client.shown) > 0 => Current \in 1 .. Len(codes)
         /\ faults \in 0 .. MaxFaults
<1>1. client \in Client /\ client.shown \in Seq(1 .. Len(codes)) /\ faults \in 0 .. MaxFaults
  BY DEF TypeOK, Client
<1>2. Len(client.shown) \in Nat /\ DOMAIN client.shown = 1 .. Len(client.shown)
  BY <1>1, LenProperties
<1>3. \A k \in 1 .. Len(client.shown) : client.shown[k] \in 1 .. Len(codes)
  BY <1>1, ElementOfSeq
<1>4. Len(client.shown) > 0 => Current \in 1 .. Len(codes)
  BY <1>2, <1>3 DEF Current
<1> QED
  BY <1>1, <1>2, <1>3, <1>4 DEF Client

\* The constants, as numbers.
LEMMA Numbers ==
  /\ MaxAttempts \in Nat /\ MaxAttempts >= 1 /\ Retries \in Nat
  /\ Interval \in Nat /\ Interval >= 1 /\ Interval <= MaxInterval
  /\ Lifetime \in Nat /\ MaxInterval \in Nat /\ MaxFaults \in Nat
BY DeviceLoginAssumption

\* A sequence that has the same places as codes.
LEMMA SamePlaces ==
  ASSUME TypeOK, NEW s, DOMAIN s = 1 .. Len(codes), s = [n \in 1 .. Len(codes) |-> s[n]],
         \A n \in 1 .. Len(codes) : s[n] \in Code
  PROVE  s \in Seq(Code) /\ Len(s) = Len(codes)
<1>1. s \in [1 .. Len(codes) -> Code]
  OBVIOUS
<1>2. s \in Seq(Code)
  BY <1>1, CodeFacts
<1>3. DOMAIN s = 1 .. Len(s) /\ Len(s) \in Nat
  BY <1>2, LenProperties
<1> QED
  BY <1>2, <1>3, CodeFacts

----------------------------------------------------------------------------
(* What the server, the user and the clock do to the codes. *)

\* What has not happened to code n.
Left(n) == codes'[n].left = codes[n].left
Rested(n) == codes'[n].since = codes[n].since
Paced(n) == codes'[n].pace = codes[n].pace
Stands(n) == codes'[n].status = codes[n].status

\* A step of the server for code n, by its answer.
Served(n, a) ==
  /\ codes' \in Seq(Code) /\ Len(codes') = Len(codes)
  /\ \A m \in 1 .. Len(codes) : Left(m) /\ (m # n => codes'[m] = codes[m])
  /\ a # "approved" => Stands(n)
  /\ a # "slow_down" => Paced(n)
  /\ a = "slow_down" => codes'[n].pace = codes[n].pace + 1 /\ codes[n].pace < MaxInterval
  /\ a = "approved" => codes'[n].status = "spent"
  /\ a = "denied" => codes[n].status = "denied"
  /\ a = "expired" => codes[n].left = 0 \/ codes[n].status = "spent"

LEMMA ChangeCode ==
  ASSUME TypeOK, NEW n \in 1 .. Len(codes), NEW c \in Code, codes' = [codes EXCEPT ![n] = c]
  PROVE  /\ codes' \in Seq(Code) /\ Len(codes') = Len(codes)
         /\ \A m \in 1 .. Len(codes) : codes'[m] = IF m = n THEN c ELSE codes[m]
BY CodeFacts, ExceptSeq

LEMMA ServeCodes ==
  ASSUME TypeOK, NEW n \in 1 .. Len(codes), NEW a \in Answers, Serve(n, a)
  PROVE  Served(n, a)
<1>1. /\ codes[n] \in Code /\ codes \in Seq(Code) /\ codes[n].pace \in Interval .. MaxInterval
      /\ 0 \in 0 .. MaxInterval
  BY CodeFacts, Numbers
<1>2. CASE a = "pending" /\ codes' = [codes EXCEPT ![n].since = 0]
  <2> DEFINE c == [codes[n] EXCEPT !.since = 0]
  <2>1. c \in Code /\ c.left = codes[n].left /\ c.pace = codes[n].pace /\ c.status = codes[n].status
    BY <1>1 DEF Code
  <2>2. codes' = [codes EXCEPT ![n] = c]
    BY <1>2
  <2> HIDE DEF c
  <2>3. /\ codes' \in Seq(Code) /\ Len(codes') = Len(codes)
        /\ \A m \in 1 .. Len(codes) : codes'[m] = IF m = n THEN c ELSE codes[m]
    BY <2>1, <2>2, ChangeCode
  <2> QED
    BY <1>2, <2>1, <2>3 DEF Served, Left, Paced, Stands
<1>3. CASE /\ a = "slow_down" /\ codes[n].pace < MaxInterval
           /\ codes' = [codes EXCEPT ![n].since = 0, ![n].pace = @ + 1]
  <2> DEFINE c == [codes[n] EXCEPT !.since = 0, !.pace = @ + 1]
  <2>1. codes[n].pace + 1 \in Interval .. MaxInterval
    BY <1>1, <1>3, Numbers
  <2>2. /\ c \in Code /\ c.left = codes[n].left /\ c.pace = codes[n].pace + 1
        /\ c.status = codes[n].status
    BY <1>1, <2>1 DEF Code
  <2>3. codes' = [codes EXCEPT ![n] = c]
    BY <1>1, <1>3, CodeFacts
  <2> HIDE DEF c
  <2>4. /\ codes' \in Seq(Code) /\ Len(codes') = Len(codes)
        /\ \A m \in 1 .. Len(codes) : codes'[m] = IF m = n THEN c ELSE codes[m]
    BY <2>2, <2>3, ChangeCode
  <2> QED
    BY <1>3, <2>2, <2>4 DEF Served, Left, Paced, Stands
<1>4. CASE a = "approved" /\ codes' = [codes EXCEPT ![n].status = "spent"]
  <2> DEFINE c == [codes[n] EXCEPT !.status = "spent"]
  <2>1. c \in Code /\ c.left = codes[n].left /\ c.pace = codes[n].pace /\ c.status = "spent"
    BY <1>1 DEF Code
  <2>2. codes' = [codes EXCEPT ![n] = c]
    BY <1>4
  <2> HIDE DEF c
  <2>3. /\ codes' \in Seq(Code) /\ Len(codes') = Len(codes)
        /\ \A m \in 1 .. Len(codes) : codes'[m] = IF m = n THEN c ELSE codes[m]
    BY <2>1, <2>2, ChangeCode
  <2> QED
    BY <1>4, <2>1, <2>3 DEF Served, Left, Paced
<1>5. CASE /\ UNCHANGED codes
           /\ \/ a = "denied" /\ codes[n].status = "denied"
              \/ a = "expired" /\ (codes[n].left = 0 \/ codes[n].status = "spent")
  BY <1>1, <1>5 DEF Served, Left, Paced, Stands
<1> QED
  BY <1>2, <1>3, <1>4, <1>5 DEF Serve

LEMMA UserCodes ==
  ASSUME TypeOK, User
  PROVE  /\ codes' \in Seq(Code) /\ Len(codes') = Len(codes)
         /\ \A m \in 1 .. Len(codes) :
              /\ Left(m) /\ Rested(m) /\ Paced(m)
              /\ codes[m].status # "pending" => Stands(m)
              /\ codes'[m].status = "spent" => codes[m].status = "spent"
<1>1. PICK n \in Shown, s \in {"approved", "denied"} :
        codes[n].status = "pending" /\ codes' = [codes EXCEPT ![n].status = s]
  BY DEF User
<1>2. n \in 1 .. Len(codes) /\ codes[n] \in Code
  BY CodeFacts, ClientFacts DEF Shown
<1> DEFINE c == [codes[n] EXCEPT !.status = s]
<1>3. /\ c \in Code /\ c.left = codes[n].left /\ c.pace = codes[n].pace
      /\ c.since = codes[n].since /\ c.status = s
  BY <1>2 DEF Code
<1>4. codes' = [codes EXCEPT ![n] = c]
  BY <1>1
<1> HIDE DEF c
<1>5. /\ codes' \in Seq(Code) /\ Len(codes') = Len(codes)
      /\ \A m \in 1 .. Len(codes) : codes'[m] = IF m = n THEN c ELSE codes[m]
  BY <1>2, <1>3, <1>4, ChangeCode
<1> QED
  BY <1>1, <1>3, <1>5 DEF Left, Rested, Paced, Stands

LEMMA TickCodes ==
  ASSUME TypeOK, Tick
  PROVE  /\ codes' \in Seq(Code) /\ Len(codes') = Len(codes)
         /\ \A m \in 1 .. Len(codes) :
              /\ Paced(m) /\ Stands(m)
              /\ codes[m].left = 0 => codes'[m].left = 0
              /\ codes'[m].since =
                   IF codes[m].since < MaxInterval THEN codes[m].since + 1 ELSE codes[m].since
<1> DEFINE Older(n) == [codes[n] EXCEPT !.left = IF @ > 0 THEN @ - 1 ELSE 0,
                                        !.since = IF @ < MaxInterval THEN @ + 1 ELSE @]
<1>1. DOMAIN codes' = 1 .. Len(codes) /\ \A n \in 1 .. Len(codes) : codes'[n] = Older(n)
  BY CodeFacts DEF Tick
<1>2. \A n \in 1 .. Len(codes) :
        /\ Older(n) \in Code
        /\ Older(n).pace = codes[n].pace /\ Older(n).status = codes[n].status
        /\ codes[n].left = 0 => Older(n).left = 0
        /\ Older(n).since = IF codes[n].since < MaxInterval THEN codes[n].since + 1
                                                            ELSE codes[n].since
  <2> SUFFICES ASSUME NEW n \in 1 .. Len(codes)
               PROVE  /\ Older(n) \in Code
                      /\ Older(n).pace = codes[n].pace /\ Older(n).status = codes[n].status
                      /\ codes[n].left = 0 => Older(n).left = 0
                      /\ Older(n).since = IF codes[n].since < MaxInterval
                                          THEN codes[n].since + 1 ELSE codes[n].since
    OBVIOUS
  <2> DEFINE l == IF codes[n].left > 0 THEN codes[n].left - 1 ELSE 0
             s == IF codes[n].since < MaxInterval THEN codes[n].since + 1 ELSE codes[n].since
  <2>1. codes[n] \in Code
    BY CodeFacts
  <2>2. l \in 0 .. Lifetime /\ (codes[n].left = 0 => l = 0) /\ s \in 0 .. MaxInterval
    BY CodeFacts, Numbers
  <2>3. Older(n) = [codes[n] EXCEPT !.left = l, !.since = s]
    BY <2>1 DEF Code
  <2> HIDE DEF l
  <2>4. [codes[n] EXCEPT !.left = l, !.since = s] \in Code
    BY <2>1, <2>2 DEF Code
  <2> QED
    BY <2>1, <2>2, <2>3, <2>4 DEF Code
<1>3. codes' = [n \in 1 .. Len(codes) |-> codes'[n]]
  BY CodeFacts DEF Tick
<1> HIDE DEF Older
<1>4. codes' \in Seq(Code) /\ Len(codes') = Len(codes)
  BY <1>1, <1>2, <1>3, SamePlaces
<1> QED
  BY <1>1, <1>2, <1>4 DEF Paced, Stands

\* The server issues one more code.
LEMMA IssueCodes ==
  ASSUME TypeOK, codes' = Append(codes, NewCode)
  PROVE  /\ codes' \in Seq(Code) /\ Len(codes') = Len(codes) + 1
         /\ \A m \in 1 .. Len(codes) : codes'[m] = codes[m]
         /\ codes'[Len(codes) + 1] = NewCode
<1>1. NewCode \in Code
  BY Numbers DEF NewCode, Code
<1> QED
  BY <1>1, CodeFacts, AppendProperties
----------------------------------------------------------------------------
(* The invariant is kept by every step. *)

\* A login is typed as well when there are more codes.
LEMMA MoreCodes ==
  ASSUME TypeOK, codes' \in Seq(Code), Len(codes') >= Len(codes),
         client' \in Client, faults' \in 0 .. MaxFaults
  PROVE  TypeOK'
<1>1. Len(codes) \in Nat /\ Len(codes') \in Nat
  BY CodeFacts, LenProperties
<1>2. 1 .. Len(codes) \subseteq 1 .. Len(codes') /\ 0 .. Len(codes) \subseteq 0 .. Len(codes')
  BY <1>1
<1>3. client'.shown \in Seq(1 .. Len(codes'))
  <2>1. client'.shown \in Seq(1 .. Len(codes))
    BY DEF Client
  <2> QED
    BY <1>2, <2>1, SeqMonotonic
<1>4. client' \in Client'
  BY <1>2, <1>3 DEF Client
<1> QED
  BY <1>4 DEF TypeOK

\* The codes a login was shown, in the next state.
LEMMA SameShown ==
  ASSUME client'.shown = client.shown
  PROVE  /\ Current' = Current
         /\ \A k : Expired(k)' = (codes'[client.shown[k]].left = 0)
BY DEF Current, Expired

\* A request that was asked in vain, or is cut off, may have been served.
Drifts == \/ UNCHANGED codes
          \/ At("poll") /\ \E a \in Answers : Serve(Current, a)

LEMMA DriftsCodes ==
  ASSUME TypeOK, Counted, Drifts
  PROVE  /\ codes' \in Seq(Code) /\ Len(codes') = Len(codes)
         /\ \A m \in 1 .. Len(codes) :
              /\ Left(m)
              /\ codes[m].pace <= codes'[m].pace
              /\ codes[m].status = "spent" => codes'[m].status = "spent"
<1>1. CASE UNCHANGED codes
  BY <1>1, CodeFacts, Numbers DEF Left
<1>2. CASE At("poll") /\ \E a \in Answers : Serve(Current, a)
  <2>1. PICK a \in Answers : Serve(Current, a)
    BY <1>2
  <2>2. Current \in 1 .. Len(codes)
    BY <1>2, ClientFacts DEF Counted, Polling, At
  <2>3. Served(Current, a)
    BY <2>1, <2>2, ServeCodes
  <2>4. \A m \in 1 .. Len(codes) : codes[m].pace \in Nat
    BY CodeFacts, Numbers
  <2> QED
    BY <2>2, <2>3, <2>4 DEF Served, Paced, Stands, Left
<1> QED
  BY <1>1, <1>2 DEF Drifts

\* The login stops, interrupted or after a fault.
LEMMA StopStep ==
  ASSUME IInv, ~At("cancelled"), NEW l \in {"failed", "cancelled"}, Goes(l),
         codes' \in Seq(Code),
         \/ l = "failed" /\ faults' = faults + 1 /\ faults < MaxFaults
            /\ Len(codes') \in {Len(codes), Len(codes) + 1}
         \/ /\ l = "cancelled" /\ faults' = faults
            /\ \/ Len(codes') = Len(codes)
               \/ At("start") /\ Len(codes') = Len(codes) + 1
  PROVE  IInv'
<1>1. TypeOK /\ Len(codes) \in Nat /\ Len(client.shown) \in Nat /\ faults \in 0 .. MaxFaults
  BY ClientFacts, CodeFacts DEF IInv
<1>2. client' \in Client /\ client'.pc = l /\ client'.shown = client.shown
      /\ client'.attempt = client.attempt
  BY <1>1, ClientFacts DEF Goes, Client, Ended
<1>3. Len(codes') >= Len(codes) /\ faults' \in 0 .. MaxFaults
  BY <1>1, Numbers
<1>4. TypeOK'
  BY <1>1, <1>2, <1>3, MoreCodes
<1>5. Counted'
  BY <1>2 DEF IInv, LoginInv, Counted, Polling, At
<1>6. InPace' /\ Holding' /\ UsedUp'
  BY <1>2 DEF InPace, Holding, UsedUp, At, Polling
<1>7. Explained' /\ NoSpare'
  BY <1>1, <1>2 DEF Explained, NoSpare, At
<1>8. NoneUnseen'
  <2>1. Len(codes) <= Len(client.shown) + faults
    BY DEF IInv, LoginInv, NoneUnseen, CutOffStart
  <2>2. At("start") => Len(client.shown) < client.attempt
    BY <1>1, ClientFacts, Numbers DEF IInv, LoginInv, Counted
  <2> QED
    BY <1>1, <1>2, <2>1, <2>2 DEF NoneUnseen, CutOffStart, At
<1> QED
  BY <1>4, <1>5, <1>6, <1>7, <1>8 DEF IInv, LoginInv

\* A request is sent again.
LEMMA AgainStep ==
  ASSUME IInv, client.pc \in {"start", "poll", "identify"},
         client.tries < Retries, client' = [client EXCEPT !.tries = @ + 1],
         faults < MaxFaults, faults' = faults + 1,
         \/ Drifts
         \/ At("start") /\ codes' = Append(codes, NewCode)
  PROVE  IInv'
<1>1. /\ TypeOK /\ Len(codes) \in Nat /\ Len(client.shown) \in Nat /\ faults \in 0 .. MaxFaults
      /\ client.tries \in 0 .. Retries /\ client.interval \in 0 .. MaxInterval
      /\ Len(client.shown) > 0 => Current \in 1 .. Len(codes)
  BY ClientFacts, CodeFacts DEF IInv
<1>2. client.tries + 1 \in 0 .. Retries
  BY <1>1, Numbers
<1>3. /\ client' \in Client /\ client'.pc = client.pc /\ client'.shown = client.shown
      /\ client'.attempt = client.attempt /\ client'.interval = client.interval
      /\ client'.token = client.token /\ client'.tries = client.tries + 1
  BY <1>1, <1>2, ClientFacts DEF Client
<1>4. /\ codes' \in Seq(Code) /\ Len(codes') \in {Len(codes), Len(codes) + 1}
      /\ \A m \in 1 .. Len(codes) :
           /\ codes[m].pace <= codes'[m].pace
           /\ codes[m].status = "spent" => codes'[m].status = "spent"
  <2>1. CASE Drifts
    BY <1>1, <2>1, DriftsCodes DEF IInv, LoginInv
  <2>2. CASE codes' = Append(codes, NewCode)
    BY <1>1, <2>2, IssueCodes, CodeFacts, Numbers
  <2> QED
    BY <2>1, <2>2
<1>5. TypeOK'
  BY <1>1, <1>3, <1>4, MoreCodes, Numbers
<1>6. Current' = Current
  BY <1>3, SameShown
<1>7. Counted'
  BY <1>3 DEF IInv, LoginInv, Counted, At
<1>8. InPace'
  <2> SUFFICES ASSUME client.pc = "poll"
               PROVE  client.interval <= codes'[Current].pace
    BY <1>1, <1>3, <1>6 DEF InPace, Polling, At
  <2>1. Len(client.shown) > 0
    BY ClientFacts, <1>1 DEF IInv, LoginInv, Counted, Polling
  <2>2. Current \in 1 .. Len(codes) /\ client.interval <= codes[Current].pace
    BY <1>1, <2>1 DEF IInv, LoginInv, InPace, Polling
  <2>3. Current \in 1 .. Len(codes')
    BY <1>1, <1>4, <2>2
  <2>4. codes'[Current] \in Code
    BY <1>4, <2>3, ElementOfSeq
  <2>5. codes[Current].pace \in Int /\ codes'[Current].pace \in Int
    <3>1. codes[Current].pace \in Interval .. MaxInterval
      BY <1>1, <2>2, CodeFacts
    <3>2. codes'[Current].pace \in Interval .. MaxInterval
      BY <2>4 DEF Code
    <3> QED
      BY <3>1, <3>2, Numbers
  <2>6. codes[Current].pace <= codes'[Current].pace
    BY <1>4, <2>2
  <2> QED
    BY <1>1, <2>2, <2>5, <2>6
<1>9. Holding'
  <2>1. client.pc = "identify" => Len(client.shown) > 0
    BY ClientFacts, <1>1 DEF IInv, LoginInv, Counted
  <2> QED
    BY <1>1, <1>3, <1>4, <1>6, <2>1 DEF IInv, LoginInv, Holding, Polling
<1>10. UsedUp' /\ Explained' /\ NoSpare'
  BY <1>1 DEF UsedUp, Explained, NoSpare
<1>11. NoneUnseen'
  BY <1>1, <1>3, <1>4 DEF IInv, LoginInv, NoneUnseen, CutOffStart, At
<1> QED
  BY <1>5, <1>7, <1>8, <1>9, <1>10, <1>11 DEF IInv, LoginInv

LEMMA WrongStep ==
  ASSUME IInv, StartWrong \/ PollWrong \/ IdentifyWrong
  PROVE  IInv'
<1>1. client.pc \in {"start", "poll", "identify"} /\ Wrong
  BY DEF StartWrong, PollWrong, IdentifyWrong, At
<1>2. Drifts \/ (At("start") /\ codes' = Append(codes, NewCode))
  BY DEF StartWrong, PollWrong, IdentifyWrong, Drifts
<1>3. codes' \in Seq(Code) /\ Len(codes') \in {Len(codes), Len(codes) + 1}
  BY <1>2, DriftsCodes, IssueCodes DEF IInv, LoginInv
<1>4. CASE client.tries < Retries /\ Retry
  BY <1>1, <1>2, <1>4, AgainStep DEF Retry
<1>5. CASE GiveUp \/ (Retry /\ ~(client.tries < Retries))
  <2>1. Goes("failed") /\ faults' = faults + 1 /\ faults < MaxFaults
    BY <1>5 DEF GiveUp, Retry, Goes
  <2> QED
    BY <1>1, <1>3, <2>1, StopStep DEF At
<1> QED
  BY <1>1, <1>4, <1>5 DEF Wrong

LEMMA CancelStep ==
  ASSUME IInv, Cancel
  PROVE  IInv'
<1>1. Goes("cancelled") /\ faults' = faults /\ ~At("cancelled")
  BY DEF Cancel, At, Ended
<1>2. CASE Drifts
  BY <1>1, <1>2, DriftsCodes, StopStep DEF IInv, LoginInv
<1>3. CASE At("start") /\ codes' = Append(codes, NewCode)
  BY <1>1, <1>3, IssueCodes, StopStep DEF IInv
<1> QED
  BY <1>2, <1>3 DEF Cancel, Drifts

LEMMA UserStep ==
  ASSUME IInv, User
  PROVE  IInv'
<1>1. /\ TypeOK /\ Len(codes) \in Nat /\ Len(client.shown) \in Nat
      /\ client.attempt \in 1 .. MaxAttempts /\ MaxAttempts \in Nat
      /\ Len(client.shown) > 0 => Current \in 1 .. Len(codes)
      /\ \A k \in 1 .. Len(client.shown) : client.shown[k] \in 1 .. Len(codes)
  BY ClientFacts, CodeFacts, Numbers DEF IInv
<1>2. client' = client /\ faults' = faults
  BY DEF User
<1>3. /\ codes' \in Seq(Code) /\ Len(codes') = Len(codes)
      /\ \A m \in 1 .. Len(codes) :
           /\ codes'[m].left = codes[m].left /\ codes'[m].since = codes[m].since
           /\ codes'[m].pace = codes[m].pace
           /\ codes[m].status # "pending" => codes'[m].status = codes[m].status
           /\ codes'[m].status = "spent" => codes[m].status = "spent"
  BY <1>1, UserCodes DEF Left, Rested, Paced, Stands
<1>4. TypeOK'
  <2>1. client \in Client /\ faults \in 0 .. MaxFaults
    BY <1>1 DEF TypeOK
  <2> QED
    BY <1>1, <1>2, <1>3, <2>1, MoreCodes
<1>5. Current' = Current /\ \A k : Expired(k)' = (codes'[client.shown[k]].left = 0)
  BY <1>2, SameShown
<1>6. Counted' /\ NoneUnseen'
  BY <1>2, <1>3 DEF IInv, LoginInv, Counted, NoneUnseen, CutOffStart, At
<1>7. client.pc \in Polling \cup {"identify", "done"} => Current \in 1 .. Len(codes)
  BY <1>1 DEF IInv, LoginInv, Counted
<1>8. InPace'
  BY <1>2, <1>3, <1>5, <1>7 DEF IInv, LoginInv, InPace, At
<1>9. Holding'
  BY <1>2, <1>3, <1>5, <1>7 DEF IInv, LoginInv, Holding
<1>10. \A k \in 1 .. Len(client.shown) : Expired(k) => Expired(k)'
  BY <1>1, <1>3, <1>5 DEF Expired
<1>11. UsedUp'
  BY <1>1, <1>2, <1>10 DEF IInv, LoginInv, UsedUp, At
<1>12. Explained'
  BY <1>1, <1>2, <1>3, <1>5, <1>10 DEF IInv, LoginInv, Explained, At
<1>13. NoSpare'
  BY <1>2, <1>3 DEF IInv, LoginInv, NoSpare, At
<1> QED
  BY <1>4, <1>6, <1>8, <1>9, <1>11, <1>12, <1>13 DEF IInv, LoginInv

LEMMA TickStep ==
  ASSUME IInv, Tick
  PROVE  IInv'
<1> DEFINE w == IF client.wait > 0 THEN client.wait - 1 ELSE 0
<1>1. /\ TypeOK /\ Len(codes) \in Nat /\ Len(client.shown) \in Nat
      /\ client.attempt \in 1 .. MaxAttempts /\ MaxAttempts \in Nat /\ MaxInterval \in Nat
      /\ client.interval \in 0 .. MaxInterval /\ client.wait \in 0 .. MaxInterval
      /\ Len(client.shown) > 0 => Current \in 1 .. Len(codes)
      /\ \A k \in 1 .. Len(client.shown) : client.shown[k] \in 1 .. Len(codes)
  BY ClientFacts, CodeFacts, Numbers DEF IInv
<1>2. client' = [client EXCEPT !.wait = w] /\ faults' = faults /\ client.pc \notin Ended
  BY DEF Tick
<1>3. /\ codes' \in Seq(Code) /\ Len(codes') = Len(codes)
      /\ \A m \in 1 .. Len(codes) :
           /\ codes[m].left = 0 => codes'[m].left = 0
           /\ codes'[m].since =
                IF codes[m].since < MaxInterval THEN codes[m].since + 1 ELSE codes[m].since
           /\ codes'[m].pace = codes[m].pace
           /\ codes'[m].status = codes[m].status
  BY <1>1, TickCodes DEF Paced, Stands
<1>4. w \in 0 .. MaxInterval /\ (w = client.wait - 1 \/ w = client.wait)
  BY <1>1
<1> HIDE DEF w
<1>5. /\ client' \in Client /\ client'.pc = client.pc /\ client'.shown = client.shown
      /\ client'.attempt = client.attempt /\ client'.interval = client.interval
      /\ client'.token = client.token /\ client'.tries = client.tries /\ client'.wait = w
  BY <1>1, <1>2, <1>4, ClientFacts DEF Client
<1>6. TypeOK'
  <2>1. faults \in 0 .. MaxFaults
    BY <1>1 DEF TypeOK
  <2> QED
    BY <1>1, <1>2, <1>3, <1>5, <2>1, MoreCodes
<1>7. Current' = Current /\ \A k : Expired(k)' = (codes'[client.shown[k]].left = 0)
  BY <1>5, SameShown
<1>8. Counted' /\ NoneUnseen'
  BY <1>2, <1>3, <1>5 DEF IInv, LoginInv, Counted, NoneUnseen, CutOffStart, At
<1>9. client.pc \in Polling \cup {"identify", "done"} => Current \in 1 .. Len(codes)
  BY <1>1 DEF IInv, LoginInv, Counted
<1>10. InPace'
  <2> SUFFICES ASSUME client.pc \in Polling PROVE InPace'
    BY <1>5 DEF InPace
  <2>1. /\ codes[Current].since \in 0 .. MaxInterval
        /\ codes'[Current].pace = codes[Current].pace
        /\ codes'[Current].since =
             IF codes[Current].since < MaxInterval THEN codes[Current].since + 1
                                                   ELSE codes[Current].since
    BY <1>1, <1>3, <1>9, CodeFacts
  <2>2. At("wait") => codes'[Current].since + w >= client.interval
    <3> SUFFICES ASSUME At("wait") PROVE codes'[Current].since + w >= client.interval
      OBVIOUS
    <3>1. codes[Current].since + client.wait >= client.interval
      BY DEF IInv, LoginInv, InPace
    <3>2. CASE codes[Current].since < MaxInterval
      BY <1>1, <1>4, <2>1, <3>1, <3>2
    <3>3. CASE codes[Current].since = MaxInterval
      BY <1>1, <1>4, <2>1, <3>3
    <3> QED
      BY <1>1, <2>1, <3>2, <3>3
  <2>3. At("poll") /\ client.tries = 0 => codes'[Current].since >= client.interval
    BY <1>1, <2>1 DEF IInv, LoginInv, InPace
  <2> QED
    BY <1>2, <1>5, <1>7, <2>1, <2>2, <2>3 DEF IInv, LoginInv, InPace, At
<1>11. Holding'
  BY <1>3, <1>5, <1>7, <1>9 DEF IInv, LoginInv, Holding
<1>12. \A k \in 1 .. Len(client.shown) : Expired(k) => Expired(k)'
  BY <1>1, <1>3, <1>7 DEF Expired
<1>13. UsedUp'
  BY <1>1, <1>2, <1>5, <1>12 DEF IInv, LoginInv, UsedUp, At
<1>14. Explained'
  BY <1>2, <1>5 DEF Explained, At, Ended
<1>15. NoSpare'
  BY <1>2, <1>3, <1>5 DEF IInv, LoginInv, NoSpare, At
<1> QED
  BY <1>6, <1>8, <1>10, <1>11, <1>13, <1>14, <1>15 DEF IInv, LoginInv

LEMMA StartedStep ==
  ASSUME IInv, Started
  PROVE  IInv'
<1> DEFINE n == Len(codes) + 1
<1>1. /\ TypeOK /\ Len(codes) \in Nat /\ Len(client.shown) \in Nat /\ client.pc = "start"
      /\ Len(client.shown) = client.attempt - 1 /\ client.attempt \in 1 .. MaxAttempts
      /\ MaxAttempts \in Nat /\ faults' = faults
      /\ \A k \in 1 .. Len(client.shown) : client.shown[k] \in 1 .. Len(codes)
  BY ClientFacts, CodeFacts, Numbers DEF IInv, LoginInv, Counted, Started, At
<1>2. /\ codes' \in Seq(Code) /\ Len(codes') = n
      /\ \A m \in 1 .. Len(codes) : codes'[m] = codes[m]
      /\ codes'[n] = NewCode
  BY <1>1, IssueCodes DEF Started
<1>3. /\ client'.shown \in Seq(1 .. n) /\ Len(client'.shown) = Len(client.shown) + 1
      /\ \A k \in 1 .. Len(client.shown) : client'.shown[k] = client.shown[k]
      /\ client'.shown[Len(client.shown) + 1] = n
  <2>1. client.shown \in Seq(1 .. n)
    <3>1. client.shown \in Seq(1 .. Len(codes)) /\ 1 .. Len(codes) \subseteq 1 .. n
      BY <1>1, ClientFacts
    <3> QED
      BY <3>1, SeqMonotonic
  <2>2. client'.shown = Append(client.shown, n) /\ n \in 1 .. n
    BY <1>1, ClientFacts DEF Started, Client
  <2> HIDE DEF n
  <2> QED
    BY <2>1, <2>2, AppendProperties
<1>4. /\ client'.pc = "wait" /\ client'.attempt = client.attempt
      /\ client'.interval = Interval /\ client'.wait = Interval
      /\ client'.tries = client.tries /\ client'.token = client.token
      /\ DOMAIN client' = DOMAIN client
  BY <1>1, ClientFacts DEF Started, Client
<1>5. Current' = n /\ n \in 1 .. Len(codes')
  BY <1>1, <1>2, <1>3 DEF Current
<1>6. TypeOK'
  <2>1. /\ client.tries \in 0 .. Retries /\ client.token \in 0 .. n
        /\ Interval \in 0 .. MaxInterval /\ faults \in 0 .. MaxFaults
    BY <1>1, ClientFacts, Numbers
  <2> HIDE DEF n
  <2>2. client' = [pc |-> "wait", attempt |-> client.attempt, shown |-> client'.shown,
                   interval |-> Interval, wait |-> Interval, tries |-> client.tries,
                   token |-> client.token]
    BY <1>1, <1>4, ClientFacts DEF Started, Client
  <2>3. client' \in Client'
    BY <1>1, <1>2, <1>3, <2>1, <2>2 DEF Client
  <2> QED
    BY <1>1, <1>2, <2>1, <2>3 DEF TypeOK
<1>7. Counted'
  BY <1>1, <1>3, <1>4 DEF Counted, At
<1>8. InPace'
  <2>1. codes'[n].pace = Interval /\ codes'[n].since = 0
    BY <1>2 DEF NewCode
  <2> QED
    BY <1>4, <1>5, <2>1, Numbers DEF InPace, At
<1>9. Holding'
  BY <1>1, <1>4 DEF IInv, LoginInv, Holding, Polling
<1>10. UsedUp'
  <2>1. \A k \in 1 .. Len(client.shown) : Expired(k) => Expired(k)'
    BY <1>1, <1>2, <1>3 DEF Expired
  <2> QED
    BY <1>1, <1>3, <1>4, <2>1 DEF IInv, LoginInv, UsedUp, At
<1>11. Explained'
  BY <1>4 DEF Explained, At
<1>12. NoSpare'
  <2>1. codes'[n].status = "pending"
    BY <1>2 DEF NewCode
  <2> QED
    BY <1>1, <1>2, <1>4, <2>1 DEF IInv, LoginInv, NoSpare, At
<1>13. NoneUnseen'
  <2>1. faults \in Nat /\ Len(codes) <= Len(client.shown) + faults
    BY <1>1, ClientFacts, Numbers DEF IInv, LoginInv, NoneUnseen, CutOffStart, At
  <2> QED
    BY <1>1, <1>2, <1>3, <2>1 DEF NoneUnseen, CutOffStart, At
<1> QED
  BY <1>6, <1>7, <1>8, <1>9, <1>10, <1>11, <1>12, <1>13 DEF IInv, LoginInv
LEMMA PollStep ==
  ASSUME IInv, Poll
  PROVE  IInv'
<1>1. /\ TypeOK /\ client.pc = "wait" /\ client.wait = 0 /\ codes' = codes /\ faults' = faults
      /\ client.interval \in 0 .. MaxInterval /\ Len(codes) \in Nat
      /\ Len(client.shown) = client.attempt /\ client.attempt \in 1 .. MaxAttempts
      /\ Current \in 1 .. Len(codes)
  BY ClientFacts, CodeFacts, Numbers DEF IInv, LoginInv, Counted, Polling, Poll, At
<1>2. /\ client' \in Client /\ client'.pc = "poll" /\ client'.shown = client.shown
      /\ client'.attempt = client.attempt /\ client'.interval = client.interval
      /\ client'.token = client.token /\ client'.tries = 0
  <2>1. client \in Client /\ 0 \in 0 .. Retries
    BY <1>1, ClientFacts, Numbers
  <2> QED
    BY <2>1 DEF Client, Poll
<1>3. TypeOK'
  BY <1>1, <1>2, MoreCodes, ClientFacts, CodeFacts
<1>4. Current' = Current /\ \A k : Expired(k)' = Expired(k)
  BY <1>1, <1>2, SameShown DEF Expired
<1>5. Counted' /\ NoneUnseen'
  BY <1>1, <1>2 DEF IInv, LoginInv, Counted, NoneUnseen, CutOffStart, At
<1>6. InPace'
  <2>1. codes[Current].since \in Int /\ codes[Current].since + client.wait >= client.interval
    BY <1>1, CodeFacts, Numbers DEF IInv, LoginInv, InPace, Polling, At
  <2>2. codes[Current].since >= client.interval
    BY <1>1, <2>1
  <2> QED
    BY <1>1, <1>2, <1>4, <2>2 DEF IInv, LoginInv, InPace, Polling, At
<1>7. Holding'
  BY <1>1, <1>2 DEF IInv, LoginInv, Holding, Polling
<1>8. UsedUp'
  BY <1>1, <1>2, <1>4 DEF IInv, LoginInv, UsedUp, Polling, At
<1>9. Explained'
  BY <1>2 DEF Explained, At
<1>10. NoSpare'
  BY <1>1, <1>2 DEF IInv, LoginInv, NoSpare, At
<1> QED
  BY <1>3, <1>5, <1>6, <1>7, <1>8, <1>9, <1>10 DEF IInv, LoginInv

\* The poll was answered: what holds whatever the answer.
LEMMA PollFacts ==
  ASSUME IInv, At("poll"), NEW a \in Answers, Serve(Current, a), faults' = faults
  PROVE  /\ TypeOK /\ Len(codes) \in Nat /\ client.pc = "poll" /\ client.token = 0
         /\ Len(client.shown) = client.attempt /\ client.attempt \in 1 .. MaxAttempts
         /\ Current \in 1 .. Len(codes) /\ Served(Current, a)
         /\ codes' \in Seq(Code) /\ Len(codes') = Len(codes)
         /\ faults = 0 => \A n \in 1 .. Len(codes) : codes[n].status # "spent"
         /\ faults = 0 => \A k \in 1 .. Len(client.shown) - 1 :
                            codes'[client.shown[k]].left = 0
<1>1. /\ TypeOK /\ Len(codes) \in Nat /\ client.pc = "poll" /\ client.token = 0
      /\ Len(client.shown) = client.attempt /\ client.attempt \in 1 .. MaxAttempts
      /\ Current \in 1 .. Len(codes)
  BY ClientFacts, CodeFacts, Numbers DEF IInv, LoginInv, Counted, Holding, Polling, At
<1>2. Served(Current, a)
  BY <1>1, ServeCodes
<1>3. faults = 0 => \A n \in 1 .. Len(codes) : codes[n].status # "spent"
  BY <1>1 DEF IInv, LoginInv, NoSpare, At
<1>4. \A k \in 1 .. Len(client.shown) - 1 :
        /\ client.shown[k] \in 1 .. Len(codes)
        /\ codes'[client.shown[k]].left = codes[client.shown[k]].left
  <2>1. \A k \in 1 .. Len(client.shown) : client.shown[k] \in 1 .. Len(codes)
    BY <1>1, ClientFacts
  <2>2. \A k \in 1 .. Len(client.shown) - 1 : k \in 1 .. Len(client.shown)
    BY <1>1
  <2> QED
    BY <1>2, <2>1, <2>2 DEF Served, Left
<1>5. faults = 0 => \A k \in 1 .. Len(client.shown) - 1 : codes[client.shown[k]].left = 0
  BY <1>1 DEF IInv, LoginInv, UsedUp, Expired, Polling
<1> QED
  BY <1>1, <1>2, <1>3, <1>4, <1>5 DEF Served

\* The loop waits again, at the pace it is told to.
LEMMA WaitsStep ==
  ASSUME IInv, At("poll"), NEW a \in {"pending", "slow_down"}, Serve(Current, a),
         faults' = faults, NEW i,
         i = IF a = "slow_down" THEN client.interval + 1 ELSE client.interval,
         client' = Waits(i)
  PROVE  IInv'
<1>1. a \in Answers
  BY DEF Answers
<1>2. /\ Served(Current, a)
      /\ TypeOK /\ Len(codes) \in Nat /\ client.pc = "poll" /\ client.token = 0
      /\ Len(client.shown) = client.attempt /\ client.attempt \in 1 .. MaxAttempts
      /\ Current \in 1 .. Len(codes)
      /\ codes' \in Seq(Code) /\ Len(codes') = Len(codes)
      /\ faults = 0 => \A n \in 1 .. Len(codes) : codes[n].status # "spent"
      /\ faults = 0 => \A k \in 1 .. Len(client.shown) - 1 : codes'[client.shown[k]].left = 0
  BY <1>1, PollFacts
<1>3. /\ client.interval \in 0 .. MaxInterval /\ client.interval <= codes[Current].pace
      /\ faults = 0 => client.interval = codes[Current].pace
      /\ codes[Current].pace \in 1 .. MaxInterval
  BY <1>2, ClientFacts, CodeFacts, Numbers DEF IInv, LoginInv, InPace, Polling
<1>4. /\ i \in 0 .. MaxInterval /\ i <= codes'[Current].pace
      /\ faults = 0 => i = codes'[Current].pace
  BY <1>2, <1>3, Numbers DEF Served, Paced
<1>5. /\ client' \in Client /\ client'.pc = "wait" /\ client'.shown = client.shown
      /\ client'.attempt = client.attempt /\ client'.interval = i /\ client'.wait = i
      /\ client'.token = client.token
  BY <1>2, <1>4, ClientFacts DEF Waits, Client
<1>6. TypeOK'
  BY <1>2, <1>5, MoreCodes, ClientFacts
<1>7. Current' = Current /\ \A k : Expired(k)' = (codes'[client.shown[k]].left = 0)
  BY <1>5, SameShown
<1>8. Counted' /\ NoneUnseen'
  BY <1>2, <1>5 DEF IInv, LoginInv, Counted, NoneUnseen, CutOffStart, At
<1>9. InPace'
  <2>1. codes'[Current].since \in Nat
    <3>1. codes'[Current] \in Code
      BY <1>2, ElementOfSeq
    <3> QED
      BY <3>1, Numbers DEF Code
  <2>2. codes'[Current].since + i >= i
    BY <1>4, <2>1, Numbers
  <2> QED
    BY <1>4, <1>5, <1>7, <2>2 DEF InPace, At
<1>10. Holding' /\ Explained'
  BY <1>2, <1>5 DEF Holding, Explained, Polling, At
<1>11. UsedUp'
  BY <1>2, <1>5, <1>7 DEF UsedUp, At
<1>12. NoSpare'
  <2>1. Stands(Current)
    BY <1>2 DEF Served
  <2>2. \A n \in 1 .. Len(codes) : codes'[n].status = codes[n].status
    BY <1>2, <2>1 DEF Served, Stands
  <2> QED
    BY <1>2, <2>2 DEF NoSpare
<1> QED
  BY <1>6, <1>8, <1>9, <1>10, <1>11, <1>12 DEF IInv, LoginInv

\* The user has approved the code, and the token is there.
LEMMA ApprovedStep ==
  ASSUME IInv, At("poll"), Serve(Current, "approved"), faults' = faults,
         client' = [client EXCEPT !.pc = "identify", !.tries = 0, !.token = Current]
  PROVE  IInv'
<1>1. /\ Served(Current, "approved")
      /\ TypeOK /\ Len(codes) \in Nat
      /\ Len(client.shown) = client.attempt /\ client.attempt \in 1 .. MaxAttempts
      /\ Current \in 1 .. Len(codes)
      /\ codes' \in Seq(Code) /\ Len(codes') = Len(codes)
      /\ faults = 0 => \A n \in 1 .. Len(codes) : codes[n].status # "spent"
  BY PollFacts DEF Answers
<1>2. /\ client' \in Client /\ client'.pc = "identify" /\ client'.shown = client.shown
      /\ client'.attempt = client.attempt /\ client'.token = Current
  <2>1. client \in Client /\ 0 \in 0 .. Retries /\ Current \in 0 .. Len(codes)
    BY <1>1, ClientFacts, Numbers
  <2> QED
    BY <2>1 DEF Client
<1>3. TypeOK'
  BY <1>1, <1>2, MoreCodes, ClientFacts
<1>4. Current' = Current
  BY <1>2, SameShown
<1>5. Counted' /\ NoneUnseen'
  BY <1>1, <1>2 DEF IInv, LoginInv, Counted, NoneUnseen, CutOffStart, At
<1>6. InPace' /\ UsedUp' /\ Explained'
  BY <1>2 DEF InPace, UsedUp, Explained, Polling, At
<1>7. Holding'
  BY <1>1, <1>2, <1>4 DEF Holding, Served, Polling
<1>8. NoSpare'
  BY <1>1, <1>2 DEF NoSpare, Served
<1> QED
  BY <1>3, <1>5, <1>6, <1>7, <1>8 DEF IInv, LoginInv

\* The code has expired, or was denied: another one, or the end.
LEMMA OverStep ==
  ASSUME IInv, At("poll"), NEW a \in {"denied", "expired"}, Serve(Current, a),
         faults' = faults,
         client' = IF a = "denied" THEN Fails ELSE CodeExpired
  PROVE  IInv'
<1>1. a \in Answers
  BY DEF Answers
<1>2. /\ Served(Current, a)
      /\ TypeOK /\ Len(codes) \in Nat /\ client.pc = "poll" /\ client.token = 0
      /\ Len(client.shown) = client.attempt /\ client.attempt \in 1 .. MaxAttempts
      /\ Current \in 1 .. Len(codes)
      /\ codes' \in Seq(Code) /\ Len(codes') = Len(codes)
      /\ faults = 0 => \A n \in 1 .. Len(codes) : codes[n].status # "spent"
      /\ faults = 0 => \A k \in 1 .. Len(client.shown) - 1 : codes'[client.shown[k]].left = 0
  BY <1>1, PollFacts
<1>3. \A n \in 1 .. Len(codes) :
        codes'[n].status = codes[n].status /\ codes'[n].left = codes[n].left
  BY <1>2 DEF Served, Stands, Left
<1>4. a = "expired" /\ faults = 0 =>
        \A k \in 1 .. Len(client.shown) : codes'[client.shown[k]].left = 0
  <2> SUFFICES ASSUME a = "expired", faults = 0, NEW k \in 1 .. Len(client.shown)
               PROVE  codes'[client.shown[k]].left = 0
    OBVIOUS
  <2>1. codes'[client.shown[Len(client.shown)]].left = 0
    BY <1>2, <1>3 DEF Served, Current
  <2> QED
    BY <1>2, <2>1
<1>5. /\ client' \in Client /\ client'.shown = client.shown /\ client'.token = client.token
      /\ \/ /\ client'.pc = "start" /\ a = "expired"
            /\ client'.attempt = client.attempt + 1
         \/ /\ client'.pc = "failed" /\ client'.attempt = client.attempt
            /\ a = "denied" \/ client.attempt = MaxAttempts
  <2>1. CASE client' = Fails /\ (a = "denied" \/ client.attempt = MaxAttempts)
    BY <1>2, <2>1, ClientFacts DEF Fails, Client, Ended
  <2>2. CASE client' = AsksAnew /\ client.attempt < MaxAttempts /\ a = "expired"
    <3>1. client.attempt + 1 \in 1 .. MaxAttempts /\ 0 \in 0 .. Retries
      BY <1>2, <2>2, Numbers
    <3> QED
      BY <1>2, <2>2, <3>1, ClientFacts DEF AsksAnew, Client
  <2> QED
    BY <1>2, <2>1, <2>2, Numbers DEF CodeExpired
<1>6. TypeOK'
  BY <1>2, <1>5, MoreCodes, ClientFacts
<1>7. Current' = Current /\ \A k : Expired(k)' = (codes'[client.shown[k]].left = 0)
  BY <1>5, SameShown
<1>8. Counted' /\ NoneUnseen'
  BY <1>2, <1>5 DEF IInv, LoginInv, Counted, NoneUnseen, CutOffStart, Polling, At
<1>9. InPace' /\ Holding'
  BY <1>2, <1>5 DEF InPace, Holding, Polling
<1>10. UsedUp'
  BY <1>4, <1>5, <1>7 DEF UsedUp, Polling, At
<1>11. Explained'
  <2> SUFFICES ASSUME client'.pc = "failed", faults = 0 PROVE Explained'
    BY DEF Explained, At
  <2>1. a = "denied" => codes'[Current].status = "denied"
    BY <1>2, <1>3 DEF Served
  <2>2. a = "expired" => Len(client.shown) = MaxAttempts
    BY <1>2, <1>5
  <2>3. Len(client'.shown) = Len(client.shown) /\ Len(client.shown) > 0
    BY <1>2, <1>5
  <2>4. CASE a = "denied"
    BY <1>7, <2>1, <2>3, <2>4 DEF Explained
  <2>5. CASE a = "expired"
    <3>1. \A k \in 1 .. Len(client'.shown) : Expired(k)'
      BY <1>4, <1>7, <2>3, <2>5
    <3> QED
      BY <2>2, <2>3, <2>5, <3>1 DEF Explained
  <2> QED
    BY <2>4, <2>5
<1>12. NoSpare'
  BY <1>2, <1>3 DEF NoSpare
<1> QED
  BY <1>6, <1>8, <1>9, <1>10, <1>11, <1>12 DEF IInv, LoginInv

LEMMA PollAnsweredStep ==
  ASSUME IInv, PollAnswered
  PROVE  IInv'
<1>1. PICK a \in Answers : Serve(Current, a) /\ Polled(a)
  BY DEF PollAnswered
<1>2. At("poll") /\ faults' = faults
  BY DEF PollAnswered
<1>3. CASE a \in {"pending", "slow_down"}
  <2>1. client' = Waits(IF a = "slow_down" THEN client.interval + 1 ELSE client.interval)
    BY <1>1, <1>3 DEF Polled, SlowedDown
  <2> QED
    BY <1>1, <1>2, <1>3, <2>1, WaitsStep
<1>4. CASE a = "approved"
  BY <1>1, <1>2, <1>4, ApprovedStep DEF Polled
<1>5. CASE a \in {"denied", "expired"}
  <2>1. client' = IF a = "denied" THEN Fails ELSE CodeExpired
    BY <1>1, <1>5 DEF Polled
  <2> QED
    BY <1>1, <1>2, <1>5, <2>1, OverStep
<1> QED
  BY <1>3, <1>4, <1>5 DEF Answers

LEMMA IdentifiedStep ==
  ASSUME IInv, Identified
  PROVE  IInv'
<1>1. TypeOK /\ client.pc = "identify" /\ codes' = codes /\ faults' = faults
  BY DEF IInv, Identified, At
<1>2. /\ client' \in Client /\ client'.pc = "done" /\ client'.shown = client.shown
      /\ client'.attempt = client.attempt /\ client'.token = client.token
  BY <1>1, ClientFacts DEF Identified, Goes, Client, Ended
<1>3. TypeOK'
  BY <1>1, <1>2, MoreCodes, ClientFacts, CodeFacts
<1>4. Current' = Current
  BY <1>2, SameShown
<1>5. Counted' /\ NoneUnseen'
  BY <1>1, <1>2 DEF IInv, LoginInv, Counted, NoneUnseen, CutOffStart, At
<1>6. InPace' /\ UsedUp' /\ Explained'
  BY <1>2 DEF InPace, UsedUp, Explained, Polling, At
<1>7. Holding' /\ NoSpare'
  BY <1>1, <1>2, <1>4 DEF IInv, LoginInv, Holding, NoSpare, Polling, At
<1> QED
  BY <1>3, <1>5, <1>6, <1>7 DEF IInv, LoginInv

LEMMA InitIInv == Init => IInv
<1> SUFFICES ASSUME Init PROVE IInv
  OBVIOUS
<1>1. /\ codes = <<>> /\ Len(codes) = 0 /\ codes \in Seq(Code) /\ faults = 0
      /\ client.pc = "start" /\ client.attempt = 1 /\ client.token = 0
      /\ client.shown = <<>> /\ Len(client.shown) = 0
  BY EmptySeq DEF Init
<1>2. <<>> \in Seq(1 .. Len(codes))
  BY EmptySeq
<1>3. client \in Client
  BY <1>1, <1>2, Numbers DEF Init, Client
<1>4. TypeOK
  BY <1>1, <1>3, Numbers DEF TypeOK
<1>5. LoginInv
  BY <1>1 DEF LoginInv, Counted, InPace, Holding, UsedUp, Explained, NoSpare, NoneUnseen,
    CutOffStart,    Polling, At
<1> QED
  BY <1>4, <1>5 DEF IInv

LEMMA StepIInv == IInv /\ [Next]_vars => IInv'
<1> SUFFICES ASSUME IInv, [Next]_vars PROVE IInv'
  OBVIOUS
<1>1. CASE UNCHANGED vars
  BY <1>1 DEF vars, IInv, LoginInv, TypeOK, Client, Counted, InPace, Holding, UsedUp,
    Expired, Explained, NoSpare, NoneUnseen, CutOffStart, Current, At
<1>2. CASE User
  BY <1>2, UserStep
<1>3. CASE Tick
  BY <1>3, TickStep
<1>4. CASE Started
  BY <1>4, StartedStep
<1>5. CASE Poll
  BY <1>5, PollStep
<1>6. CASE PollAnswered
  BY <1>6, PollAnsweredStep
<1>7. CASE Identified
  BY <1>7, IdentifiedStep
<1>8. CASE StartWrong \/ PollWrong \/ IdentifyWrong
  BY <1>8, WrongStep
<1>9. CASE Cancel
  BY <1>9, CancelStep
<1> QED
  BY <1>1, <1>2, <1>3, <1>4, <1>5, <1>6, <1>7, <1>8, <1>9 DEF Next, Login

LEMMA Invariant == Spec => []IInv
<1>1. Init => IInv
  BY InitIInv
<1>2. IInv /\ [Next]_vars => IInv'
  BY StepIInv
<1> QED
  BY <1>1, <1>2, PTL DEF Spec
----------------------------------------------------------------------------
(* The theorems. *)

\* The login, its codes and its faults stay within their types: no more attempts, tries or
\* faults than allowed, and only codes that were issued are shown (authflow.go, oauth.go).
THEOREM TypeCorrect == Spec => []TypeOK
<1>1. IInv => TypeOK
  BY DEF IInv
<1> QED
  BY <1>1, Invariant, PTL

\* No poll of the loop's own is sent before its time, whatever slow_down, restarts and lost
\* answers come between (authflow.go, poll; oauth.go, SlowDown).  Of each poll this speaks
\* of the first try: the retries under it (client.go) do not keep the pace.
THEOREM PaceAlwaysKept == Spec => []PaceKept
<1>1. IInv => PaceKept
  BY DEF IInv, LoginInv, InPace, PaceKept, Polling, At
<1> QED
  BY <1>1, Invariant, PTL

\* A login that succeeds has the token of the last code it showed (authflow.go, Login).
THEOREM DoneIsApproved == Spec => []DoneMeansApproved
<1>1. IInv => DoneMeansApproved
  BY DEF IInv, LoginInv, Holding, DoneMeansApproved, At
<1> QED
  BY <1>1, Invariant, PTL

\* Without a fault, only a denial or the expiry of all codes ends a login in failure.
THEOREM FailuresExplained == Spec => []FailureExplained
<1>1. IInv => FailureExplained
  <2> SUFFICES ASSUME IInv, At("failed"), faults = 0, codes[Current].status # "denied"
               PROVE  Len(client.shown) = MaxAttempts /\ \A n \in Shown : codes[n].left = 0
    BY DEF FailureExplained
  <2>1. DOMAIN client.shown = 1 .. Len(client.shown)
    BY ClientFacts DEF IInv
  <2> QED
    BY <2>1 DEF IInv, LoginInv, Explained, Expired, Shown
<1> QED
  BY <1>1, Invariant, PTL

\* A token is lost only where a request went wrong or the login was interrupted; every fault
\* loses one code at most, and an interruption the one being asked for at most
\* (authflow.go, Login; the retries of client.go).
THEOREM NothingEverWasted == Spec => []NothingWasted
<1>1. IInv => NothingWasted
  <2> SUFFICES ASSUME IInv PROVE NothingWasted
    OBVIOUS
  <2>1. /\ DOMAIN codes = 1 .. Len(codes) /\ Len(codes) \in Nat
        /\ Len(client.shown) \in Nat /\ faults \in Nat
    BY CodeFacts, ClientFacts, Numbers DEF IInv
  <2>2. faults = 0 /\ ~At("cancelled") =>
          \A n \in DOMAIN codes : codes[n].status = "spent" => client.token = n
    BY <2>1 DEF IInv, LoginInv, NoSpare
  <2>3. Len(codes) <= Len(client.shown) + faults + (IF CutOffStart THEN 1 ELSE 0)
    <3>1. CASE CutOffStart
      BY <2>1, <3>1 DEF IInv, LoginInv, NoneUnseen
    <3>2. CASE ~CutOffStart
      BY <2>1, <3>2 DEF IInv, LoginInv, NoneUnseen
    <3> QED
      BY <3>1, <3>2
  <2>4. Len(client.shown) <= client.attempt
    BY DEF IInv, LoginInv, Counted
  <2> QED
    BY <2>2, <2>3, <2>4 DEF NothingWasted
<1> QED
  BY <1>1, Invariant, PTL
=============================================================================

------------------------- MODULE VpnBarracudaProofs -------------------------
(***************************************************************************)
(* Proofs about VpnBarracuda for any profiles and any number of attempts:  *)
(* a client the GUI brought up stays in the hands of the GUI               *)
(* (TunnelIsManaged), the end of every attempt is explained                *)
(* (EndIsExplained), and "Connected" names the gateway the client serves   *)
(* (RowTellsGateway).                                                      *)
(***************************************************************************)
EXTENDS VpnBarracuda, SequenceTheorems, TLAPS

\* --start has been run and the slot on its finished() is still to come.
Starting(a) == starter[a] \in {"running", "failed", "ended"}

\* An attempt that somebody in the GUI still looks after.
Watched(a) == Starting(a) \/ a \in polling

-----------------------------------------------------------------------------
(* The inductive invariant.                                                *)

\* The bookkeeping: an attempt to come has left no trace, an entry is of its
\* name, --start runs on the configuration that was written for it or a later
\* one, and the GUI that is gone polls nothing.
BookInv ==
  /\ \A a \in Attempts \ Started : starter[a] = "none" /\ status[a] = "DISCONNECTED"
  /\ \A n \in Names : connections[n] # 0 => NameOf(connections[n]) = n
  /\ \A a \in Attempts : starter[a] = "running" => conf # ""
  /\ gui = "gone" => polling = {}
  /\ gui = "up" => "quit" \notin holes

\* While no name is started by two calls an attempt that is watched has its
\* name's entry to itself, and its status says how far it is.
EntryInv ==
  holes \intersect {"twice", "quit"} = {} =>
    /\ \A a \in Started : Watched(a) => connections[NameOf(a)] = a
    /\ \A a \in Started : Starting(a) => status[a] = "CONNECTING"
    /\ \A a \in polling : status[a] # "DISCONNECTED"
    /\ gui = "up" => \A a \in Started : status[a] = "CONNECTED" => a \in polling

\* What the manager and the attempt remember of being connected agree, and
\* nothing is reported of an attempt that is still watched.
MemoryInv ==
  "twice" \notin holes /\ gui = "up" =>
    /\ \A a \in Started : Watched(a) => a \notin reported
    /\ \A a \in Started : Starting(a) => a \notin ever /\ a \notin wasUp
    /\ \A a \in polling : a \in ever <=> a \in wasUp
    /\ \A a \in polling : a \in wasUp <=> status[a] = "CONNECTED"
    /\ \A n \in Names : connections[n] # 0 /\ starter[connections[n]] = "done"
         => connections[n] \in polling

\* While nothing happens that the code does not guard against one attempt at a
\* time is under way, and the configuration and the client are its own.
OneInv ==
  holes = {} /\ gui = "up" =>
    /\ \A a, b \in Started :
         status[a] # "DISCONNECTED" /\ status[b] # "DISCONNECTED" => a = b
    /\ \A a \in Started : status[a] # "DISCONNECTED" =>
         /\ conf = NameOf(a)
         /\ client # "down" => serves = NameOf(a)
    /\ \A n \in Names : row[n] = "CONNECTED" =>
         connections[n] # 0 /\ status[connections[n]] = "CONNECTED"

BarracudaInv ==
  /\ BarracudaTypeOK
  /\ BookInv
  /\ EntryInv
  /\ TunnelIsManaged
  /\ MemoryInv
  /\ EndIsExplained
  /\ OneInv

-----------------------------------------------------------------------------
(* Facts the steps share.                                                  *)

LEMMA Bound == MaxAttempts \in Nat \ {0} /\ OtpNames \subseteq Names
BY BarracudaAssumption

\* What is left of the open dialogs, and the one that is closed.
LEMMA FrontAndLast ==
  ASSUME NEW S, NEW s \in Seq(S), s # <<>>
  PROVE  /\ Len(s) \in Nat \ {0}
         /\ Front(s) \in Seq(S) /\ Len(Front(s)) = Len(s) - 1
         /\ Last(s) \in S
<1>1. Len(s) \in Nat /\ Len(s) # 0 /\ \A i \in 1 .. Len(s) : s[i] \in S
  BY EmptySeq, LenProperties, ElementOfSeq
<1>2. PICK k : k = Len(s) - 1
  OBVIOUS
<1>3. k \in Int /\ 1 \in Int /\ \A i \in 1 .. k : s[i] \in S
  BY <1>1, <1>2
<1>4. SubSeq(s, 1, k) \in Seq(S)
  BY <1>3, SubSeqProperties
<1>5. Len(SubSeq(s, 1, k)) = IF 1 <= k THEN k - 1 + 1 ELSE 0
  BY <1>3, <1>4, SubSeqProperties
<1> QED
  BY <1>1, <1>2, <1>4, <1>5 DEF Front, Last

\* The attempts are the first numbers, and within the bound.
LEMMA StartedFacts ==
  ASSUME BarracudaTypeOK
  PROVE  /\ Len(started) \in Nat /\ Len(asking) \in Nat
         /\ Started = 1 .. Len(started) /\ Started \subseteq Attempts
         /\ \A a \in Started : NameOf(a) \in Names
         /\ \A n \in Names : connections[n] # 0 => connections[n] \in Started
<1>1. /\ started \in Seq(Names) /\ asking \in Seq(OtpNames)
      /\ Len(started) + Len(asking) <= MaxAttempts
      /\ connections \in [Names -> 0 .. Len(started)]
  BY DEF BarracudaTypeOK
<1>2. Len(started) \in Nat /\ Len(asking) \in Nat /\ Started = 1 .. Len(started)
  BY <1>1, LenProperties DEF Started
<1>3. \A a \in Started : NameOf(a) \in Names
  BY <1>1, <1>2, ElementOfSeq DEF NameOf
<1> QED
  BY <1>1, <1>2, <1>3, Bound DEF Attempts

\* A call of startVPN() gets as far as vpn->start(): at once, or when its token
\* dialog is closed.
Starts(n) ==
  /\ gui = "up"
  /\ asking' \in Seq(OtpNames) /\ Len(started) + 1 + Len(asking') <= MaxAttempts
  /\ \E hole \in SUBSET {"late"} :
       /\ SomeBarracudaConnected => "late" \in hole
       /\ Launch(n, hole)

\* Every step is a start or one of the other actions.
LEMMA Steps ==
  ASSUME BarracudaInv, [Next]_vars
  PROVE  \/ \E n \in Names : Starts(n) \/ AskOtp(n) \/ StopVPN(n)
         \/ Quit \/ RefreshList \/ ClientStep
         \/ \E a \in Started : StarterEnds(a) \/ StarterFinished(a) \/ StatusCheck(a)
         \/ UNCHANGED vars
<1>0. /\ Len(started) \in Nat /\ Len(asking) \in Nat /\ asking \in Seq(OtpNames)
      /\ Len(started) + Len(asking) <= MaxAttempts
  BY StartedFacts DEF BarracudaInv, BarracudaTypeOK
<1>1. ASSUME NEW n \in Names, StartVPN(n) PROVE Starts(n)
  <2>1. ~SomeBarracudaConnected /\ Launch(n, {}) /\ asking' = asking
    BY <1>1 DEF StartVPN, MayStart
  <2>2. Len(started) + 1 + Len(asking') <= MaxAttempts
    BY <1>0, <1>1, <2>1, Bound DEF StartVPN, MayStart
  <2> QED
    BY <1>0, <1>1, <2>1, <2>2 DEF Starts, StartVPN, MayStart
<1>2. ASSUME AnswerOtp PROVE \E n \in Names : Starts(n)
  <2>1. /\ Len(asking) \in Nat \ {0} /\ Front(asking) \in Seq(OtpNames)
        /\ Len(Front(asking)) = Len(asking) - 1
        /\ Last(asking) \in OtpNames
    BY <1>0, <1>2, FrontAndLast DEF AnswerOtp
  <2>2. asking' \in Seq(OtpNames) /\ Len(started) + 1 + Len(asking') <= MaxAttempts
    BY <1>0, <1>2, <2>1, Bound DEF AnswerOtp
  <2>3. Last(asking) \in Names /\ Starts(Last(asking))
    <3>1. CASE SomeBarracudaConnected
      <4>1. Launch(Last(asking), {"late"})
        BY <1>2, <3>1 DEF AnswerOtp
      <4> QED
        BY <1>2, <2>1, <2>2, <4>1, Bound DEF AnswerOtp, Starts
    <3>2. CASE ~SomeBarracudaConnected
      <4>1. Launch(Last(asking), {})
        BY <1>2, <3>2 DEF AnswerOtp
      <4> QED
        BY <1>2, <2>1, <2>2, <3>2, <4>1, Bound DEF AnswerOtp, Starts
    <3> QED
      BY <3>1, <3>2
  <2> QED
    BY <2>3
<1> QED
  BY <1>1, <1>2 DEF Next

\* What a start does: one attempt more, which is its name's, and the names of
\* the others stay.  What the code does not guard against is noted.
LEMMA StartFacts ==
  ASSUME BarracudaInv, NEW n \in Names, Starts(n),
         NEW a, a = Len(started) + 1
  PROVE  /\ a \in Attempts \ Started /\ a # 0 /\ Started' = Started \union {a}
         /\ started' \in Seq(Names) /\ Len(started') = a
         /\ started'[a] = n
         /\ \A b \in Started : NameOf(b)' = NameOf(b)
         /\ connections' = [connections EXCEPT ![n] = a]
         /\ holes \subseteq holes' /\ holes' \subseteq holes \union {"late", "raced", "twice"}
         /\ (\E b \in Started : status[b] = "CONNECTING") => "raced" \in holes'
         /\ SomeBarracudaConnected => "late" \in holes'
         /\ connections[n] # 0 => "twice" \in holes'
         /\ \/ /\ conf' = n
               /\ row' = [row EXCEPT ![n] = "CONNECTING"]
               /\ status' = [status EXCEPT ![a] = "CONNECTING"]
               /\ \E s \in {"running", "missing"} : starter' = [starter EXCEPT ![a] = s]
            \/ UNCHANGED <<conf, row, status, starter>>
         /\ gui = "up"
         /\ UNCHANGED <<ever, polling, reported, client, serves, gui, wasUp, stopped>>
<1>1. /\ started \in Seq(Names) /\ Len(started) \in Nat /\ Started = 1 .. Len(started)
      /\ asking' \in Seq(OtpNames) /\ Len(started) + 1 + Len(asking') <= MaxAttempts
  BY StartedFacts DEF BarracudaInv, BarracudaTypeOK, Starts
<1>2. Len(asking') \in Nat
  BY <1>1, LenProperties
<1>3. PICK hole \in SUBSET {"late"} :
        /\ SomeBarracudaConnected => "late" \in hole
        /\ Launch(n, hole)
  BY DEF Starts
<1>4. /\ started' = Append(started, n)
      /\ holes' = holes \union hole
           \union (IF \E b \in Started : status[b] = "CONNECTING" THEN {"raced"} ELSE {})
           \union (IF connections[n] # 0 \/ n \in ToSet(asking') THEN {"twice"} ELSE {})
  BY <1>3 DEF Launch
<1>5. /\ started' \in Seq(Names) /\ Len(started') = a /\ started'[a] = n
      /\ \A b \in 1 .. Len(started) : started'[b] = started[b]
  BY <1>1, <1>4, AppendProperties
<1>6. Started' = 1 .. a
  BY <1>5, LenProperties DEF Started
<1>7. /\ a \in Attempts \ Started /\ a # 0 /\ Started' = Started \union {a}
  BY <1>1, <1>2, <1>6, Bound DEF Attempts
<1>8. \A b \in Started : NameOf(b)' = NameOf(b)
  BY <1>1, <1>5 DEF NameOf
<1>9. /\ holes \subseteq holes' /\ holes' \subseteq holes \union {"late", "raced", "twice"}
      /\ (\E b \in Started : status[b] = "CONNECTING") => "raced" \in holes'
      /\ SomeBarracudaConnected => "late" \in holes'
      /\ connections[n] # 0 => "twice" \in holes'
  BY <1>3, <1>4
<1>10. /\ connections' = [connections EXCEPT ![n] = a]
       /\ \/ /\ conf' = n
             /\ row' = [row EXCEPT ![n] = "CONNECTING"]
             /\ status' = [status EXCEPT ![a] = "CONNECTING"]
             /\ \E s \in {"running", "missing"} : starter' = [starter EXCEPT ![a] = s]
          \/ UNCHANGED <<conf, row, status, starter>>
       /\ UNCHANGED <<ever, polling, reported, client, serves, gui, wasUp, stopped>>
  BY <1>3 DEF Launch
<1> QED
  BY <1>5, <1>7, <1>8, <1>9, <1>10 DEF Starts

-----------------------------------------------------------------------------
(* The types, and the bookkeeping.                                         *)

\* What the manager does on a change of status keeps the types.
LEMMA StatusChangedType ==
  ASSUME BarracudaTypeOK, NEW n \in Names, NEW m \in Statuses, StatusChanged(n, m)
  PROVE  /\ connections' \in [Names -> 0 .. Len(started)]
         /\ ever' \subseteq Started /\ reported' \subseteq Started
         /\ row' \in [Names -> Statuses]
<1>1. connections[n] # 0 => connections[n] \in Started
  BY StartedFacts
<1>2. /\ connections \in [Names -> 0 .. Len(started)] /\ Len(started) \in Nat
      /\ ever \subseteq Started /\ reported \subseteq Started
      /\ row \in [Names -> Statuses]
  BY StartedFacts DEF BarracudaTypeOK
<1>3. connections' \in [Names -> 0 .. Len(started)]
  BY <1>2 DEF StatusChanged
<1> QED
  BY <1>1, <1>2, <1>3 DEF StatusChanged

LEMMA TypeStep ==
  ASSUME BarracudaInv, [Next]_vars
  PROVE  BarracudaTypeOK'
<1>a. /\ BarracudaTypeOK /\ BookInv /\ asking \in Seq(OtpNames)
      /\ connections \in [Names -> 0 .. Len(started)]
      /\ status \in [Attempts -> Statuses] /\ row \in [Names -> Statuses]
      /\ starter \in [Attempts -> StarterStates]
      /\ polling \subseteq Started /\ \A a \in polling : starter[a] = "done"
      /\ Len(started) + Len(asking) <= MaxAttempts
  BY DEF BarracudaInv, BarracudaTypeOK
<1>0. /\ BarracudaTypeOK
      /\ Len(started) \in Nat /\ Len(asking) \in Nat
      /\ Started \subseteq Attempts /\ \A a \in Started : NameOf(a) \in Names
      /\ \A n \in Names : connections[n] # 0 => connections[n] \in Started
  BY <1>a, StartedFacts
<1>1. ASSUME NEW n \in Names, Starts(n) PROVE BarracudaTypeOK'
  <2>1. PICK a : a = Len(started) + 1
    OBVIOUS
  <2>2. /\ a \in Attempts \ Started /\ Started' = Started \union {a}
        /\ started' \in Seq(Names) /\ Len(started') = a
        /\ connections' = [connections EXCEPT ![n] = a]
        /\ holes' \subseteq holes \union {"late", "raced", "twice"}
        /\ \/ /\ conf' = n
              /\ row' = [row EXCEPT ![n] = "CONNECTING"]
              /\ status' = [status EXCEPT ![a] = "CONNECTING"]
              /\ \E s \in {"running", "missing"} : starter' = [starter EXCEPT ![a] = s]
           \/ UNCHANGED <<conf, row, status, starter>>
        /\ UNCHANGED <<ever, polling, reported, client, serves, gui, wasUp, stopped>>
    BY <1>1, <2>1, StartFacts
  <2>3. asking' \in Seq(OtpNames) /\ Len(started') + Len(asking') <= MaxAttempts
    BY <1>1, <2>1, <2>2 DEF Starts
  <2>5. connections' \in [Names -> 0 .. Len(started')]
    BY <1>a, <1>0, <2>1, <2>2
  <2>4. /\ status' \in [Attempts -> Statuses] /\ row' \in [Names -> Statuses]
        /\ starter' \in [Attempts -> StarterStates]
        /\ \A b \in polling : starter'[b] = "done"
    <3>1. CASE UNCHANGED <<conf, row, status, starter>>
      BY <1>a, <3>1
    <3>2. CASE ~UNCHANGED <<conf, row, status, starter>>
      <4>1. PICK s \in {"running", "missing"} :
              /\ starter' = [starter EXCEPT ![a] = s]
              /\ row' = [row EXCEPT ![n] = "CONNECTING"]
              /\ status' = [status EXCEPT ![a] = "CONNECTING"]
        BY <2>2, <3>2
      <4>2. starter' \in [Attempts -> StarterStates]
        BY <1>a, <4>1 DEF StarterStates
      <4>3. \A b \in polling : starter'[b] = "done"
        BY <1>a, <2>2, <4>1
      <4>4. status' \in [Attempts -> Statuses] /\ row' \in [Names -> Statuses]
        BY <1>a, <4>1 DEF Statuses
      <4> QED
        BY <4>2, <4>3, <4>4
    <3> QED
      BY <3>1, <3>2
  <2>6. conf' \in Names \union {""}
    BY <1>0, <2>2 DEF BarracudaTypeOK
  <2>7. holes' \subseteq Holes
    BY <1>0, <2>2 DEF BarracudaTypeOK, Holes
  <2> QED
    BY <1>0, <2>2, <2>3, <2>4, <2>5, <2>6, <2>7 DEF BarracudaTypeOK
<1>2. ASSUME NEW n \in Names, AskOtp(n) PROVE BarracudaTypeOK'
  <2>1. /\ Append(asking, n) \in Seq(OtpNames)
        /\ Len(Append(asking, n)) = Len(asking) + 1
    BY <1>a, <1>2, AppendProperties DEF AskOtp
  <2>2. Len(started) + Len(asking) + 1 <= MaxAttempts
    BY <1>0, <1>2, Bound DEF AskOtp, MayStart
  <2>3. asking' \in Seq(OtpNames) /\ Len(started') + Len(asking') <= MaxAttempts
    BY <1>0, <1>2, <2>1, <2>2, Bound DEF AskOtp, attemptVars
  <2> QED
    BY <1>0, <1>2, <2>3 DEF BarracudaTypeOK, AskOtp, managerVars, attemptVars, clientVars,
                           Started
<1>3. ASSUME NEW n \in Names, StopVPN(n) PROVE BarracudaTypeOK'
  <2>1. connections[n] \in Started /\ "DISCONNECTED" \in Statuses
    BY <1>0, <1>3 DEF StopVPN, Statuses
  <2>2. StatusChanged(n, "DISCONNECTED") /\ UNCHANGED <<asking, started>>
    BY <1>3 DEF StopVPN, Disconnect
  <2>3. /\ connections' \in [Names -> 0 .. Len(started')]
        /\ ever' \subseteq Started' /\ reported' \subseteq Started'
        /\ row' \in [Names -> Statuses]
    BY <1>0, <2>1, <2>2, StatusChangedType DEF Started
  <2> QED
    BY <1>0, <1>3, <2>1, <2>2, <2>3 DEF BarracudaTypeOK, StopVPN, Disconnect, Started
<1>4. CASE Quit
  <2>1. /\ connections' \in [Names -> 0 .. Len(started)] /\ polling' = {}
        /\ gui' = "gone"
        /\ UNCHANGED <<asking, ever, reported, row, started, status, starter, wasUp, conf>>
    <3>1. connections' = [n \in Names |-> 0]
      BY <1>4 DEF Quit
    <3>2. 0 \in 0 .. Len(started)
      BY <1>0
    <3> QED
      BY <1>4, <3>1, <3>2 DEF Quit
  <2>2. stopped' \subseteq Started /\ holes' \subseteq Holes
    BY <1>0, <1>4 DEF BarracudaTypeOK, Quit, Holes
  <2>3. /\ client' \in {"down", "up", "away"} /\ serves' \in Names \union {""}
        /\ client' = "down" <=> serves' = ""
    BY <1>0, <1>4 DEF BarracudaTypeOK, Quit
  <2> QED
    BY <1>0, <2>1, <2>2, <2>3 DEF BarracudaTypeOK, Started
<1>5. CASE RefreshList
  <2>1. row' \in [Names -> Statuses]
    BY <1>a, <1>0, <1>5 DEF RefreshList, Statuses
  <2> QED
    BY <1>0, <1>5, <2>1 DEF BarracudaTypeOK, RefreshList, attemptVars, clientVars, Started
<1>6. CASE ClientStep
  BY <1>0, <1>6 DEF BarracudaTypeOK, ClientStep, ClientBreaks, ClientReturns, ClientGivesUp, managerVars,
                    attemptVars, Started
<1>7. ASSUME NEW a \in Started, StarterEnds(a) PROVE BarracudaTypeOK'
  <2>1. conf \in Names /\ "" \notin Names
    BY <1>a, <1>0, <1>7, BarracudaAssumption DEF BarracudaTypeOK, StarterEnds, BookInv
  <2>2. /\ starter' \in [Attempts -> StarterStates]
        /\ \A b \in polling : starter'[b] = "done"
    <3>1. PICK s \in {"failed", "ended"} : starter' = [starter EXCEPT ![a] = s]
      BY <1>7 DEF StarterEnds
    <3>2. starter[a] = "running"
      BY <1>7 DEF StarterEnds
    <3> QED
      BY <1>a, <1>0, <3>1, <3>2 DEF StarterStates
  <2>3. /\ client' \in {"down", "up", "away"} /\ serves' \in Names \union {""}
        /\ client' = "down" <=> serves' = ""
    BY <1>0, <1>7, <2>1 DEF BarracudaTypeOK, StarterEnds
  <2> QED
    BY <1>0, <1>7, <2>2, <2>3 DEF BarracudaTypeOK, StarterEnds, managerVars, Started
<1>8. ASSUME NEW a \in Started, StarterFinished(a) PROVE BarracudaTypeOK'
  <2>1. /\ UNCHANGED <<asking, started, wasUp, clientVars, gui, stopped, holes>>
        /\ starter' = [starter EXCEPT ![a] = "done"]
        /\ polling' \subseteq polling \union {a}
        /\ status' \in [Attempts -> Statuses]
    BY <1>a, <1>8 DEF StarterFinished, Statuses
  <2>2. /\ connections' \in [Names -> 0 .. Len(started)]
        /\ ever' \subseteq Started /\ reported' \subseteq Started
        /\ row' \in [Names -> Statuses]
    <3>1. CASE UNCHANGED managerVars
      BY <1>0, <3>1 DEF BarracudaTypeOK, managerVars
    <3>2. CASE StatusChanged(NameOf(a), "DISCONNECTED")
      BY <1>0, <3>2, StatusChangedType DEF Statuses
    <3> QED
      BY <1>8, <3>1, <3>2 DEF StarterFinished
  <2> QED
    <3>1. /\ starter' \in [Attempts -> StarterStates]
          /\ \A b \in polling' : starter'[b] = "done"
      BY <1>a, <1>0, <1>8, <2>1 DEF StarterStates
    <3> QED
      BY <1>0, <1>8, <2>1, <2>2, <3>1 DEF BarracudaTypeOK, clientVars, Started
<1>9. ASSUME NEW a \in Started, StatusCheck(a) PROVE BarracudaTypeOK'
  <2>1. /\ UNCHANGED <<asking, started, starter, clientVars, gui, stopped>>
        /\ polling' \subseteq polling
        /\ wasUp' \subseteq Started
        /\ holes' \subseteq holes \union {"away"}
        /\ status' \in [Attempts -> Statuses]
    BY <1>a, <1>0, <1>9 DEF BarracudaTypeOK, StatusCheck, PollUp, Statuses
  <2>2. /\ connections' \in [Names -> 0 .. Len(started)]
        /\ ever' \subseteq Started /\ reported' \subseteq Started
        /\ row' \in [Names -> Statuses]
    <3>1. CASE UNCHANGED managerVars
      BY <1>0, <3>1 DEF BarracudaTypeOK, managerVars
    <3>2. ASSUME NEW m \in Statuses, StatusChanged(NameOf(a), m)
          PROVE  /\ connections' \in [Names -> 0 .. Len(started)]
                 /\ ever' \subseteq Started /\ reported' \subseteq Started
                 /\ row' \in [Names -> Statuses]
      BY <1>0, <3>2, StatusChangedType
    <3> QED
      BY <1>9, <3>1, <3>2 DEF StatusCheck, PollUp, Statuses
  <2> QED
    BY <1>0, <2>1, <2>2 DEF BarracudaTypeOK, clientVars, Started, Holes
<1>10. CASE UNCHANGED vars
  BY <1>0, <1>10 DEF BarracudaTypeOK, vars, managerVars, attemptVars, clientVars, Started
<1> QED
  BY Steps, <1>1, <1>2, <1>3, <1>4, <1>5, <1>6, <1>7, <1>8, <1>9, <1>10

\* The parts of the types the other steps use.
LEMMA TypeFacts ==
  ASSUME BarracudaInv
  PROVE  /\ connections \in [Names -> 0 .. Len(started)] /\ Len(started) \in Nat
         /\ status \in [Attempts -> Statuses]
         /\ starter \in [Attempts -> StarterStates]
         /\ row \in [Names -> Statuses]
         /\ polling \subseteq Started /\ \A a \in polling : starter[a] = "done"
         /\ ever \subseteq Started /\ reported \subseteq Started /\ wasUp \subseteq Started
         /\ gui \in {"up", "gone"}
         /\ client = "down" <=> serves = ""
         /\ Started \subseteq Attempts /\ 0 \notin Started
         /\ \A a \in Started : NameOf(a) \in Names
         /\ \A n \in Names : connections[n] # 0 => connections[n] \in Started
<1>1. BarracudaTypeOK
  BY DEF BarracudaInv
<1>2. /\ Len(started) \in Nat /\ Started = 1 .. Len(started) /\ Started \subseteq Attempts
      /\ \A a \in Started : NameOf(a) \in Names
      /\ \A n \in Names : connections[n] # 0 => connections[n] \in Started
  BY <1>1, StartedFacts
<1>3. 0 \notin Started
  BY <1>2
<1> QED
  BY <1>1, <1>2, <1>3 DEF BarracudaTypeOK

\* A start, attempt by attempt and name by name.
LEMMA StartPoints ==
  ASSUME BarracudaInv, NEW n \in Names, Starts(n),
         NEW a, a = Len(started) + 1
  PROVE  /\ connections'[n] = a
         /\ \A m \in Names \ {n} : connections'[m] = connections[m] /\ row'[m] = row[m]
         /\ \A b \in Attempts \ {a} : starter'[b] = starter[b] /\ status'[b] = status[b]
         /\ \/ /\ conf' = n /\ row'[n] = "CONNECTING" /\ status'[a] = "CONNECTING"
               /\ starter'[a] \in {"running", "missing"}
            \/ /\ UNCHANGED <<conf, row, status, starter>>
               /\ status'[a] = "DISCONNECTED" /\ starter'[a] = "none"
<1>1. /\ connections \in [Names -> 0 .. Len(started)] /\ row \in [Names -> Statuses]
      /\ starter \in [Attempts -> StarterStates] /\ status \in [Attempts -> Statuses]
  BY TypeFacts
<1>2. /\ connections' = [connections EXCEPT ![n] = a] /\ a \in Attempts \ Started
      /\ \/ /\ conf' = n
            /\ row' = [row EXCEPT ![n] = "CONNECTING"]
            /\ status' = [status EXCEPT ![a] = "CONNECTING"]
            /\ \E s \in {"running", "missing"} : starter' = [starter EXCEPT ![a] = s]
         \/ UNCHANGED <<conf, row, status, starter>>
  BY StartFacts
<1>3. connections'[n] = a /\ \A m \in Names \ {n} : connections'[m] = connections[m]
  BY <1>1, <1>2
<1>4. CASE UNCHANGED <<conf, row, status, starter>>
  BY <1>2, <1>3, <1>4 DEF BarracudaInv, BookInv
<1>5. ASSUME NEW s \in {"running", "missing"}, starter' = [starter EXCEPT ![a] = s],
             row' = [row EXCEPT ![n] = "CONNECTING"],
             status' = [status EXCEPT ![a] = "CONNECTING"]
      PROVE  /\ \A m \in Names \ {n} : row'[m] = row[m]
             /\ \A b \in Attempts \ {a} : starter'[b] = starter[b] /\ status'[b] = status[b]
             /\ row'[n] = "CONNECTING" /\ status'[a] = "CONNECTING"
             /\ starter'[a] \in {"running", "missing"}
  <2>1. starter'[a] = s /\ \A b \in Attempts \ {a} : starter'[b] = starter[b]
    BY <1>1, <1>2, <1>5
  <2>2. row'[n] = "CONNECTING" /\ \A m \in Names \ {n} : row'[m] = row[m]
    BY <1>1, <1>5
  <2>3. status'[a] = "CONNECTING" /\ \A b \in Attempts \ {a} : status'[b] = status[b]
    BY <1>1, <1>2, <1>5
  <2> QED
    BY <2>1, <2>2, <2>3
<1> QED
  BY <1>2, <1>3, <1>4, <1>5

\* onClientVPNStatusChanged(), name by name.
LEMMA ChangePoints ==
  ASSUME BarracudaInv, NEW n \in Names, NEW m, StatusChanged(n, m)
  PROVE  /\ \A k \in Names \ {n} : connections'[k] = connections[k] /\ row'[k] = row[k]
         /\ row'[n] = m
         /\ connections'[n] = IF m = "DISCONNECTED" THEN 0 ELSE connections[n]
<1>1. connections \in [Names -> 0 .. Len(started)] /\ row \in [Names -> Statuses]
  BY TypeFacts
<1>2. row'[n] = m /\ \A k \in Names \ {n} : row'[k] = row[k]
  BY <1>1 DEF StatusChanged
<1>3. CASE m = "DISCONNECTED"
  <2>1. connections' = [connections EXCEPT ![n] = 0]
    BY <1>3 DEF StatusChanged
  <2> QED
    BY <1>1, <1>2, <1>3, <2>1
<1>4. CASE m # "DISCONNECTED"
  BY <1>2, <1>4 DEF StatusChanged
<1> QED
  BY <1>3, <1>4

LEMMA BookStep ==
  ASSUME BarracudaInv, [Next]_vars
  PROVE  BookInv'
<1>a. BookInv
  BY DEF BarracudaInv
<1>1. ASSUME NEW n \in Names, Starts(n) PROVE BookInv'
  <2>1. PICK a : a = Len(started) + 1
    OBVIOUS
  <2>2. /\ a \in Attempts \ Started /\ a # 0 /\ Started' = Started \union {a}
        /\ started'[a] = n
        /\ \A b \in Started : NameOf(b)' = NameOf(b)
        /\ connections' = [connections EXCEPT ![n] = a]
        /\ holes' \subseteq holes \union {"late", "raced", "twice"}
        /\ gui = "up" /\ UNCHANGED <<polling, gui>>
    BY <1>1, <2>1, StartFacts
  <2>3. /\ \A b \in Attempts \ {a} : starter'[b] = starter[b] /\ status'[b] = status[b]
        /\ conf' # "" \/ UNCHANGED <<conf, starter>>
    <3>1. n # ""
      BY BarracudaAssumption
    <3>2. /\ \A b \in Attempts \ {a} : starter'[b] = starter[b] /\ status'[b] = status[b]
          /\ conf' = n \/ UNCHANGED <<conf, starter>>
      BY <1>1, <2>1, StartPoints
    <3> QED
      BY <3>1, <3>2
  <2>4. \A m \in Names : connections'[m] # 0 => NameOf(connections[m])' = m
    <3>1. connections'[n] = a /\ \A m \in Names \ {n} : connections'[m] = connections[m]
      BY <2>2, TypeFacts
    <3>2. ASSUME NEW m \in Names, connections'[m] # 0 PROVE started'[connections'[m]] = m
      <4>1. CASE m = n
        BY <2>2, <3>1, <4>1
      <4>2. CASE m # n
        <5>1. connections'[m] = connections[m] /\ connections[m] # 0
          BY <3>1, <3>2, <4>2
        <5>2. connections[m] \in Started /\ NameOf(connections[m]) = m
          BY <1>a, <5>1, TypeFacts DEF BookInv
        <5>3. started'[connections[m]] = started[connections[m]]
          BY <2>2, <5>2 DEF NameOf
        <5> QED
          BY <5>1, <5>2, <5>3 DEF NameOf
      <4> QED
        BY <4>1, <4>2
    <3> QED
      BY <3>2 DEF NameOf
  <2> QED
    BY <1>a, <2>2, <2>3, <2>4 DEF BookInv
<1>2. ASSUME NEW n \in Names, AskOtp(n) PROVE BookInv'
  BY <1>a, <1>2 DEF AskOtp, BookInv, managerVars, attemptVars, clientVars, Started, NameOf
<1>3. ASSUME NEW n \in Names, StopVPN(n) PROVE BookInv'
  BY <1>a, <1>3, TypeFacts DEF StopVPN, Disconnect, StatusChanged, BookInv, Started, NameOf
<1>4. CASE Quit
  BY <1>a, <1>4 DEF Quit, BookInv, Started, NameOf
<1>5. CASE RefreshList
  BY <1>a, <1>5 DEF RefreshList, BookInv, attemptVars, clientVars, Started, NameOf
<1>6. CASE ClientStep
  BY <1>a, <1>6 DEF ClientStep, ClientBreaks, ClientReturns, ClientGivesUp, BookInv,
                    managerVars, attemptVars, Started, NameOf
<1>7. ASSUME NEW a \in Started, StarterEnds(a) PROVE BookInv'
  BY <1>a, <1>7, TypeFacts DEF StarterEnds, BookInv, managerVars, Started, NameOf
<1>8. ASSUME NEW a \in Started, StarterFinished(a) PROVE BookInv'
  <2>1. /\ UNCHANGED <<started, conf, gui, holes>> /\ gui = "up"
        /\ starter' = [starter EXCEPT ![a] = "done"]
        /\ \A b \in Attempts \ {a} : status'[b] = status[b]
    BY <1>8, TypeFacts DEF StarterFinished, clientVars
  <2>2. \A n \in Names : connections'[n] # 0 => connections'[n] = connections[n]
    <3>1. CASE UNCHANGED managerVars
      BY <3>1 DEF managerVars
    <3>2. CASE StatusChanged(NameOf(a), "DISCONNECTED")
      BY <3>2, ChangePoints, TypeFacts
    <3> QED
      BY <1>8, <3>1, <3>2 DEF StarterFinished
  <2> QED
    BY <1>a, <2>1, <2>2, TypeFacts DEF BookInv, NameOf, Started
<1>9. ASSUME NEW a \in Started, StatusCheck(a) PROVE BookInv'
  <2>1. /\ UNCHANGED <<started, starter, conf, gui>> /\ gui = "up"
        /\ polling' \subseteq polling /\ holes' \subseteq holes \union {"away"}
        /\ \/ UNCHANGED managerVars
           \/ \E m \in {"CONNECTED", "DISCONNECTED"} : StatusChanged(NameOf(a), m)
    BY <1>9 DEF StatusCheck, PollUp, clientVars
  <2>2. \A b \in Attempts \ {a} : status'[b] = status[b]
    <3>1. \E m : status' = [status EXCEPT ![a] = m]
      BY <1>9 DEF StatusCheck, PollUp
    <3> QED
      BY <3>1, TypeFacts
  <2>3. \A n \in Names : connections'[n] # 0 => connections'[n] = connections[n]
    <3>1. CASE UNCHANGED managerVars
      BY <3>1 DEF managerVars
    <3>2. ASSUME NEW m \in {"CONNECTED", "DISCONNECTED"}, StatusChanged(NameOf(a), m)
          PROVE  \A n \in Names : connections'[n] # 0 => connections'[n] = connections[n]
      BY <3>2, ChangePoints, TypeFacts
    <3> QED
      BY <2>1, <3>1, <3>2
  <2> QED
    BY <1>a, <2>1, <2>2, <2>3, TypeFacts DEF BookInv, NameOf, Started
<1>10. CASE UNCHANGED vars
  BY <1>a, <1>10 DEF vars, BookInv, managerVars, attemptVars, clientVars, Started, NameOf
<1> QED
  BY Steps, <1>1, <1>2, <1>3, <1>4, <1>5, <1>6, <1>7, <1>8, <1>9, <1>10

-----------------------------------------------------------------------------
(* Who has the entry.                                                      *)

LEMMA EntryStep ==
  ASSUME BarracudaInv, [Next]_vars
  PROVE  EntryInv'
<1>a. EntryInv /\ BookInv
  BY DEF BarracudaInv
<1>1. ASSUME NEW n \in Names, Starts(n) PROVE EntryInv'
  <2>1. PICK a : a = Len(started) + 1
    OBVIOUS
  <2>2. /\ a \in Attempts \ Started /\ a # 0 /\ Started' = Started \union {a}
        /\ started'[a] = n
        /\ \A b \in Started : started'[b] = started[b]
        /\ connections' = [connections EXCEPT ![n] = a]
        /\ holes \subseteq holes'
        /\ connections[n] # 0 => "twice" \in holes'
        /\ UNCHANGED <<polling, gui>>
    BY <1>1, <2>1, StartFacts DEF NameOf
  <2>3. /\ \A b \in Attempts \ {a} : starter'[b] = starter[b] /\ status'[b] = status[b]
        /\ \/ starter'[a] \in {"running", "missing"} /\ status'[a] = "CONNECTING"
           \/ starter'[a] = "none" /\ status'[a] = "DISCONNECTED"
    BY <1>1, <2>1, StartPoints
  <2>4. a \notin polling
    BY <2>2, TypeFacts
  <2>5. SUFFICES ASSUME holes' \intersect {"twice", "quit"} = {}
                 PROVE  /\ \A b \in Started' : Watched(b)' => connections'[started'[b]] = b
                        /\ \A b \in Started' : Starting(b)' => status'[b] = "CONNECTING"
                        /\ \A b \in polling' : status'[b] # "DISCONNECTED"
                        /\ gui' = "up" => \A b \in Started' :
                             status'[b] = "CONNECTED" => b \in polling'
    BY DEF EntryInv, NameOf, Watched, Starting
  <2>6. connections[n] = 0 /\ holes \intersect {"twice", "quit"} = {}
    BY <2>2, <2>5
  <2>7. /\ connections'[n] = a
        /\ \A m \in Names \ {n} : connections'[m] = connections[m]
    BY <1>1, <2>1, StartPoints
  <2>8. ASSUME NEW b \in Started, Watched(b)' PROVE connections'[started'[b]] = b
    <3>1. Watched(b)
      BY <2>2, <2>3, <2>8, TypeFacts DEF Watched, Starting
    <3>2. connections[started[b]] = b /\ started[b] \in Names /\ b # 0
      BY <1>a, <2>6, <3>1, TypeFacts DEF EntryInv, NameOf
    <3> QED
      BY <2>2, <2>6, <2>7, <3>2
  <2>9. \A b \in Started : /\ Starting(b)' => status'[b] = "CONNECTING"
                           /\ gui' = "up" /\ status'[b] = "CONNECTED" => b \in polling'
    BY <1>a, <2>2, <2>3, <2>6, TypeFacts DEF EntryInv, Starting
  <2>10. \A b \in polling' : status'[b] # "DISCONNECTED"
    BY <1>a, <2>2, <2>3, <2>4, <2>6, TypeFacts DEF EntryInv
  <2>11. connections'[started'[a]] = a /\ status'[a] # "CONNECTED"
         /\ (Starting(a)' => status'[a] = "CONNECTING")
    BY <2>2, <2>3, <2>7 DEF Starting
  <2> QED
    BY <2>2, <2>8, <2>9, <2>10, <2>11
<1>2. ASSUME NEW n \in Names, AskOtp(n) PROVE EntryInv'
  BY <1>a, <1>2 DEF AskOtp, EntryInv, managerVars, attemptVars, clientVars, Started, NameOf,
                    Watched, Starting
<1>3. ASSUME NEW n \in Names, StopVPN(n) PROVE EntryInv'
  <2>1. PICK a : a = connections[n]
    OBVIOUS
  <2>2. /\ a # 0 /\ status[a] # "CONNECTING" /\ polling' = polling \ {a}
        /\ StatusChanged(n, "DISCONNECTED")
        /\ UNCHANGED <<started, starter, gui, holes>>
    BY <1>3, <2>1 DEF StopVPN, Disconnect
  <2>3. \A b \in Attempts \ {a} : status'[b] = status[b]
    BY <1>3, <2>1, TypeFacts DEF StopVPN, Disconnect
  <2>4. a \in Started /\ status'[a] = "DISCONNECTED"
    BY <1>3, <2>1, <2>2, TypeFacts DEF StopVPN, Disconnect
  <2>5. \A m \in Names \ {n} : connections'[m] = connections[m]
    BY <2>2, ChangePoints
  <2>6. SUFFICES ASSUME holes \intersect {"twice", "quit"} = {}
                 PROVE  /\ \A b \in Started : Watched(b)' => connections'[started[b]] = b
                        /\ \A b \in Started : Starting(b)' => status'[b] = "CONNECTING"
                        /\ \A b \in polling' : status'[b] # "DISCONNECTED"
                        /\ gui = "up" => \A b \in Started :
                             status'[b] = "CONNECTED" => b \in polling'
    BY <2>2 DEF EntryInv, NameOf, Watched, Starting, Started
  <2>7. /\ \A b \in Started : Watched(b) => connections[started[b]] = b
        /\ \A b \in Started : Starting(b) => status[b] = "CONNECTING"
        /\ \A b \in polling : status[b] # "DISCONNECTED"
        /\ gui = "up" => \A b \in Started : status[b] = "CONNECTED" => b \in polling
    BY <1>a, <2>6 DEF EntryInv, NameOf
  <2>8. \A b : Starting(b)' <=> Starting(b)
    BY <2>2 DEF Starting
  <2>9. \A b \in Started : Watched(b)' => b # a /\ Watched(b)
    BY <2>2, <2>4, <2>7, <2>8 DEF Watched
  <2>10. ASSUME NEW b \in Started, Watched(b)' PROVE connections'[started[b]] = b
    <3>1. b # a /\ connections[started[b]] = b /\ started[b] \in Names
      BY <2>7, <2>9, <2>10, TypeFacts DEF NameOf
    <3> QED
      BY <2>1, <2>5, <3>1
  <2>11. \A b \in Started : Starting(b)' => status'[b] = "CONNECTING"
    BY <2>2, <2>3, <2>7, <2>8, TypeFacts
  <2>12. \A b \in polling' : status'[b] # "DISCONNECTED"
    BY <2>2, <2>3, <2>7, TypeFacts
  <2>13. gui = "up" => \A b \in Started : status'[b] = "CONNECTED" => b \in polling'
    BY <2>2, <2>3, <2>4, <2>7, TypeFacts
  <2> QED
    BY <2>10, <2>11, <2>12, <2>13
<1>4. CASE Quit
  <2>1. SUFFICES ASSUME holes' \intersect {"twice", "quit"} = {} PROVE EntryInv'
    BY DEF EntryInv
  <2>2. /\ holes \intersect {"twice", "quit"} = {} /\ polling' = {} /\ gui' = "gone"
        /\ UNCHANGED <<started, starter, status>>
        /\ \A n \in Names : connections[n] # 0 => status[connections[n]] # "CONNECTING"
    BY <1>4, <2>1 DEF Quit
  <2>3. \A a \in Started : ~Starting(a)
    BY <1>a, <2>2, TypeFacts DEF EntryInv, Watched
  <2> QED
    BY <2>2, <2>3 DEF EntryInv, Watched, Starting, Started
<1>5. CASE RefreshList
  BY <1>a, <1>5 DEF RefreshList, EntryInv, attemptVars, clientVars, Started, NameOf,
                    Watched, Starting
<1>6. CASE ClientStep
  BY <1>a, <1>6 DEF ClientStep, ClientBreaks, ClientReturns, ClientGivesUp, EntryInv,
                    managerVars, attemptVars, Started, NameOf, Watched, Starting
<1>7. ASSUME NEW a \in Started, StarterEnds(a) PROVE EntryInv'
  BY <1>a, <1>7, TypeFacts DEF StarterEnds, EntryInv, managerVars, Started, NameOf,
                               Watched, Starting
<1>8. ASSUME NEW a \in Started, StarterFinished(a) PROVE EntryInv'
  <2>1. SUFFICES ASSUME holes' \intersect {"twice", "quit"} = {} PROVE EntryInv'
    BY DEF EntryInv
  <2>2. /\ UNCHANGED <<started, gui, holes>> /\ Starting(a) /\ gui = "up"
        /\ starter'[a] = "done" /\ \A b \in Attempts \ {a} : starter'[b] = starter[b]
    BY <1>8, TypeFacts DEF StarterFinished, Starting
  <2>3. connections[NameOf(a)] = a /\ status[a] = "CONNECTING"
    BY <1>a, <2>1, <2>2 DEF EntryInv, Watched
  <2>4. CASE StatusChanged(NameOf(a), "DISCONNECTED") /\ starter[a] = "failed"
             /\ status' = [status EXCEPT ![a] = "DISCONNECTED"] /\ polling' = polling
    <3>1. /\ status'[a] = "DISCONNECTED" /\ \A b \in Attempts \ {a} : status'[b] = status[b]
          /\ \A n \in Names \ {NameOf(a)} : connections'[n] = connections[n]
          /\ a \notin polling
      BY <2>4, ChangePoints, TypeFacts
    <3>2. \A b \in Started \ {a} : Watched(b) => NameOf(b) # NameOf(a)
      BY <1>a, <2>1, <2>2, <2>3 DEF EntryInv
    <3>3. \A b \in Started : Watched(b)' => b # a /\ Watched(b)
      <4>1. ~Watched(a)'
        BY <2>2, <2>4, <3>1 DEF Watched, Starting
      <4>2. \A b \in Started \ {a} : Watched(b)' => Watched(b)
        BY <2>2, <2>4, TypeFacts DEF Watched, Starting
      <4> QED
        BY <4>1, <4>2
    <3>4. \A b \in Started : Watched(b)' => connections'[NameOf(b)] = b
      <4>1. \A b \in Started : Watched(b) => connections[NameOf(b)] = b
        BY <1>a, <2>1, <2>2 DEF EntryInv
      <4>2. \A b \in Started : Watched(b)' => NameOf(b) \in Names \ {NameOf(a)}
        BY <3>2, <3>3, TypeFacts
      <4> QED
        BY <3>1, <3>3, <4>1, <4>2
    <3> QED
      BY <1>a, <2>1, <2>2, <2>4, <3>1, <3>3, <3>4, TypeFacts
         DEF EntryInv, Starting, Started, NameOf
  <2>5. CASE polling' = polling \union {a} /\ UNCHANGED <<managerVars, status>>
    <3>1. \A b \in Started : Watched(b)' => Watched(b)
      BY <2>2, <2>5, TypeFacts DEF Watched, Starting
    <3> QED
      BY <1>a, <2>1, <2>2, <2>3, <2>5, <3>1, TypeFacts
         DEF EntryInv, Starting, Started, NameOf, managerVars
  <2> QED
    BY <1>8, <2>4, <2>5 DEF StarterFinished
<1>9. ASSUME NEW a \in Started, StatusCheck(a) PROVE EntryInv'
  <2>1. SUFFICES ASSUME holes' \intersect {"twice", "quit"} = {} PROVE EntryInv'
    BY DEF EntryInv
  <2>2. /\ UNCHANGED <<started, starter, gui>> /\ holes \subseteq holes' /\ gui = "up"
        /\ a \in polling
    BY <1>9 DEF StatusCheck, PollUp
  <2>3. /\ connections[NameOf(a)] = a /\ ~Starting(a)
        /\ holes \intersect {"twice", "quit"} = {}
    BY <1>a, <2>1, <2>2, TypeFacts DEF EntryInv, Watched, Starting
  <2>4. CASE PollUp(a)
    <3>1. /\ status'[a] = "CONNECTED" /\ \A b \in Attempts \ {a} : status'[b] = status[b]
          /\ polling' = polling
      BY <2>4, TypeFacts DEF PollUp
    <3>2. \A n \in Names : connections'[n] = connections[n]
      <4>1. CASE UNCHANGED managerVars
        BY <4>1 DEF managerVars
      <4>2. CASE StatusChanged(NameOf(a), "CONNECTED")
        BY <4>2 DEF StatusChanged
      <4> QED
        BY <2>4, <4>1, <4>2 DEF PollUp
    <3> QED
      BY <1>a, <2>1, <2>2, <2>3, <3>1, <3>2, TypeFacts
         DEF EntryInv, Watched, Starting, Started, NameOf
  <2>5. CASE StatusChanged(NameOf(a), "DISCONNECTED") /\ polling' = polling \ {a}
             /\ status' = [status EXCEPT ![a] = "DISCONNECTED"]
    <3>1. /\ status'[a] = "DISCONNECTED" /\ \A b \in Attempts \ {a} : status'[b] = status[b]
          /\ \A n \in Names \ {NameOf(a)} : connections'[n] = connections[n]
      BY <2>5, ChangePoints, TypeFacts
    <3>2. \A b \in Started \ {a} : Watched(b) => NameOf(b) # NameOf(a)
      BY <1>a, <2>1, <2>2, <2>3 DEF EntryInv
    <3>3. \A b \in Started : Watched(b)' => b # a /\ Watched(b)
      BY <2>2, <2>3, <2>5 DEF Watched, Starting
    <3>4. \A b \in Started : Watched(b)' => connections'[NameOf(b)] = b
      BY <1>a, <2>3, <3>1, <3>2, <3>3, TypeFacts DEF EntryInv
    <3> QED
      BY <1>a, <2>1, <2>2, <2>3, <2>5, <3>1, <3>3, <3>4, TypeFacts
         DEF EntryInv, Starting, Started, NameOf
  <2> QED
    BY <1>9, <2>4, <2>5 DEF StatusCheck
<1>10. CASE UNCHANGED vars
  BY <1>a, <1>10 DEF vars, EntryInv, managerVars, attemptVars, clientVars, Started, NameOf,
                     Watched, Starting
<1> QED
  BY Steps, <1>1, <1>2, <1>3, <1>4, <1>5, <1>6, <1>7, <1>8, <1>9, <1>10

\* An attempt that is watched has its name to itself, so what ends it leaves
\* the entries and rows of the others that are watched.
LEMMA OwnEntry ==
  ASSUME BarracudaInv, holes \intersect {"twice", "quit"} = {},
         NEW a \in Started, Watched(a)
  PROVE  /\ connections[NameOf(a)] = a /\ NameOf(a) \in Names /\ a # 0
         /\ \A b \in Started \ {a} : Watched(b) => NameOf(b) # NameOf(a)
         /\ \A n \in Names : connections[n] = a <=> n = NameOf(a)
BY TypeFacts DEF BarracudaInv, EntryInv, BookInv

\* What StarterFinished() and StatusCheck() leave as it is.
LEMMA SlotFacts ==
  ASSUME BarracudaInv, NEW a \in Started, StarterFinished(a) \/ StatusCheck(a)
  PROVE  /\ gui = "up" /\ UNCHANGED <<started, client, serves, conf, gui>>
         /\ holes \subseteq holes'
         /\ Watched(a)
         /\ \A b \in Attempts \ {a} : starter'[b] = starter[b] /\ status'[b] = status[b]
         /\ \A b \in Attempts \ {a} : b \in polling' <=> b \in polling
         /\ starter'[a] = "done"
BY TypeFacts DEF StarterFinished, StatusCheck, PollUp, clientVars, Watched, Starting

-----------------------------------------------------------------------------
(* The client stays in the hands of the GUI.                               *)

LEMMA TunnelStep ==
  ASSUME BarracudaInv, [Next]_vars
  PROVE  TunnelIsManaged'
<1> DEFINE Holds(n) == /\ connections[n] # 0
                       /\ connections[n] \in polling \/ starter[connections[n]] = "ended"
<1>a. /\ TunnelIsManaged /\ EntryInv /\ BookInv
      /\ holes \intersect {"twice", "away", "quit"} = {} /\ client # "down"
           => \E n \in Names : Holds(n)
  BY DEF BarracudaInv, TunnelIsManaged
<1>b. SUFFICES ASSUME holes' \intersect {"twice", "away", "quit"} = {}, client' # "down"
               PROVE  \E n \in Names : Holds(n)'
  BY DEF TunnelIsManaged
<1>c. \A n \in Names : Holds(n) => connections[n] \in Started /\ Watched(connections[n])
                                   /\ NameOf(connections[n]) = n
  BY <1>a, TypeFacts DEF BookInv, Watched, Starting
<1>1. ASSUME NEW n \in Names, Starts(n) PROVE \E m \in Names : Holds(m)'
  <2>1. PICK a : a = Len(started) + 1
    OBVIOUS
  <2>2. /\ a \notin Started /\ holes \subseteq holes' /\ connections[n] = 0
        /\ UNCHANGED <<client, polling>>
    BY <1>1, <1>b, <2>1, StartFacts
  <2>3. PICK m \in Names : Holds(m)
    BY <1>a, <1>b, <2>2
  <2>4. connections[m] \in Attempts \ {a} /\ m # n
    BY <1>c, <2>2, <2>3, TypeFacts
  <2>5. connections'[m] = connections[m] /\ starter'[connections[m]] = starter[connections[m]]
    BY <1>1, <2>1, <2>4, StartPoints
  <2> QED
    BY <2>2, <2>3, <2>5
<1>2. ASSUME NEW n \in Names, AskOtp(n) PROVE \E m \in Names : Holds(m)'
  BY <1>a, <1>b, <1>2 DEF AskOtp, managerVars, attemptVars, clientVars
<1>3. ASSUME NEW n \in Names, StopVPN(n) PROVE FALSE
  BY <1>b, <1>3 DEF StopVPN, Disconnect
<1>4. CASE Quit
  <2>1. /\ holes \intersect {"twice", "away", "quit"} = {} /\ client # "down"
        /\ \A n \in Names : connections[n] # 0 =>
             status[connections[n]] \notin {"CONNECTING", "CONNECTED"}
    <3> DEFINE entries == {connections[n] : n \in Names} \ {0}
    <3>1. \A a \in entries : status[a] # "CONNECTING"
      BY <1>b, <1>4 DEF Quit
    <3>2. holes' = holes /\ client # "down"
      BY <1>b, <1>4, <3>1 DEF Quit
    <3>3. \A a \in entries : status[a] # "CONNECTED"
      BY <1>b, <1>4 DEF Quit
    <3> QED
      BY <1>b, <3>1, <3>2, <3>3
  <2>2. PICK n \in Names : Holds(n)
    BY <1>a, <2>1
  <2>3. status[connections[n]] \in {"CONNECTING", "CONNECTED"}
    <3>1. connections[n] \in Started /\ status[connections[n]] \in Statuses
      BY <1>c, <2>2, TypeFacts
    <3>2. CASE connections[n] \in polling
      BY <1>a, <2>1, <3>1, <3>2 DEF EntryInv, Statuses
    <3>3. CASE starter[connections[n]] = "ended"
      BY <1>a, <2>1, <3>1, <3>3 DEF EntryInv, Starting
    <3> QED
      BY <2>2, <3>2, <3>3
  <2> QED
    BY <2>1, <2>2, <2>3
<1>5. CASE RefreshList
  BY <1>a, <1>b, <1>5 DEF RefreshList, attemptVars, clientVars
<1>6. CASE ClientStep
  BY <1>a, <1>b, <1>6 DEF ClientStep, ClientBreaks, ClientReturns, ClientGivesUp,
                          managerVars, attemptVars
<1>7. ASSUME NEW a \in Started, StarterEnds(a) PROVE \E m \in Names : Holds(m)'
  <2>1. /\ UNCHANGED <<connections, polling, holes>> /\ starter[a] = "running"
        /\ \A b \in Attempts \ {a} : starter'[b] = starter[b]
    BY <1>7, TypeFacts DEF StarterEnds, managerVars
  <2>2. CASE client # "down"
    <3>1. PICK n \in Names : Holds(n)
      BY <1>a, <1>b, <2>1, <2>2
    <3>2. connections[n] \in polling \/ connections[n] \in Attempts \ {a}
      BY <1>c, <2>1, <3>1, TypeFacts
    <3> QED
      BY <2>1, <3>1, <3>2
  <2>3. CASE client = "down"
    <3>1. starter'[a] = "ended"
      BY <1>7, <1>b, <2>3 DEF StarterEnds
    <3>2. connections[NameOf(a)] = a /\ NameOf(a) \in Names /\ a # 0
      BY <1>b, <2>1, OwnEntry DEF Watched, Starting
    <3> QED
      BY <2>1, <3>1, <3>2
  <2> QED
    BY <2>2, <2>3
<1>8. ASSUME NEW a \in Started, StarterFinished(a) PROVE \E m \in Names : Holds(m)'
  <2>1. /\ UNCHANGED <<client, holes>> /\ polling \subseteq polling'
        /\ starter'[a] = "done" /\ \A b \in Attempts \ {a} : starter'[b] = starter[b]
    BY <1>8, SlotFacts DEF StarterFinished, clientVars
  <2>2. PICK n \in Names : Holds(n)
    BY <1>a, <1>b, <2>1
  <2>3. CASE StatusChanged(NameOf(a), "DISCONNECTED") /\ starter[a] = "failed"
    <3>1. connections[n] # a
      BY <2>2, <2>3, TypeFacts
    <3>2. n # NameOf(a)
      <4>1. Watched(a) /\ holes \intersect {"twice", "quit"} = {}
        BY <1>8, <1>b, <2>1, SlotFacts
      <4>2. connections[NameOf(a)] = a
        BY <4>1, OwnEntry
      <4> QED
        BY <3>1, <4>2
    <3>3. connections'[n] = connections[n]
      <4>1. NameOf(a) \in Names
        BY TypeFacts
      <4>2. \A k \in Names \ {NameOf(a)} : connections'[k] = connections[k]
        BY <2>3, <4>1, ChangePoints
      <4> QED
        BY <3>2, <4>2
    <3> QED
      BY <1>c, <2>1, <2>2, <3>1, <3>3, TypeFacts
  <2>4. CASE polling' = polling \union {a} /\ UNCHANGED <<managerVars, status>>
    <3>1. connections'[n] = connections[n]
      BY <2>4 DEF managerVars
    <3> QED
      BY <1>c, <2>1, <2>2, <2>4, <3>1, TypeFacts
  <2> QED
    BY <1>8, <2>3, <2>4 DEF StarterFinished
<1>9. ASSUME NEW a \in Started, StatusCheck(a) PROVE \E m \in Names : Holds(m)'
  <2>1. client # "down" /\ holes \subseteq holes' /\ UNCHANGED starter
    BY <1>9, <1>b, SlotFacts DEF StatusCheck
  <2>2. PICK n \in Names : Holds(n)
    BY <1>a, <1>b, <2>1
  <2>3. PollUp(a)
    BY <1>9, <1>b, <2>1, TypeFacts DEF StatusCheck, BarracudaInv, BarracudaTypeOK
  <2>4. UNCHANGED <<connections, polling>>
    BY <2>3 DEF PollUp, StatusChanged, managerVars
  <2> QED
    BY <2>1, <2>2, <2>4
<1>10. CASE UNCHANGED vars
  BY <1>a, <1>b, <1>10 DEF vars, managerVars, attemptVars, clientVars
<1> QED
  BY Steps, <1>1, <1>2, <1>3, <1>4, <1>5, <1>6, <1>7, <1>8, <1>9, <1>10

-----------------------------------------------------------------------------
(* What is remembered of being connected, and what is reported.            *)

\* The end of an attempt, noticed by a slot: its entry and its row go, it is
\* reported unless it had been connected.
LEMMA EndOfOwn ==
  ASSUME BarracudaInv, holes \intersect {"twice", "quit"} = {},
         NEW a \in Started, Watched(a), StatusChanged(NameOf(a), "DISCONNECTED")
  PROVE  /\ connections'[NameOf(a)] = 0 /\ row'[NameOf(a)] = "DISCONNECTED"
         /\ \A n \in Names \ {NameOf(a)} :
              /\ connections'[n] = connections[n] /\ row'[n] = row[n]
              /\ connections[n] # a
         /\ ever' = ever
         /\ reported' = IF a \in ever THEN reported ELSE reported \union {a}
<1>1. connections[NameOf(a)] = a /\ NameOf(a) \in Names /\ a # 0
      /\ \A n \in Names : connections[n] = a <=> n = NameOf(a)
  BY OwnEntry
<1>2. /\ connections'[NameOf(a)] = 0 /\ row'[NameOf(a)] = "DISCONNECTED"
      /\ \A n \in Names \ {NameOf(a)} :
           connections'[n] = connections[n] /\ row'[n] = row[n]
  BY <1>1, ChangePoints
<1>3. ever' = ever /\ reported' = IF a \in ever THEN reported ELSE reported \union {a}
  BY <1>1 DEF StatusChanged
<1> QED
  BY <1>1, <1>2, <1>3

\* A poll that finds the client connected: the entries stay, the attempt is
\* remembered and shown as connected.
LEMMA PollOfOwn ==
  ASSUME BarracudaInv, holes \intersect {"twice", "quit"} = {}, gui = "up",
         NEW a \in polling, PollUp(a)
  PROVE  /\ UNCHANGED <<connections, reported, polling, holes>> /\ client = "up"
         /\ status'[a] = "CONNECTED"
         /\ wasUp' = wasUp \union {a} /\ ever' = ever \union {a}
         /\ \/ row' = row /\ status[a] = "CONNECTED"
            \/ /\ row'[NameOf(a)] = "CONNECTED"
               /\ \A n \in Names \ {NameOf(a)} : row'[n] = row[n]
<1>1. a \in Started /\ Watched(a) /\ status'[a] = "CONNECTED"
  BY TypeFacts DEF PollUp, Watched
<1>2. connections[NameOf(a)] = a /\ NameOf(a) \in Names /\ a # 0
  BY <1>1, OwnEntry
<1>3. UNCHANGED <<polling, holes>> /\ client = "up" /\ wasUp' = wasUp \union {a}
  BY DEF PollUp
<1>4. CASE status[a] = "CONNECTED"
  <2>1. a \in ever
    BY <1>4 DEF BarracudaInv, MemoryInv
  <2> QED
    BY <1>1, <1>3, <1>4, <2>1 DEF PollUp, managerVars
<1>5. CASE status[a] # "CONNECTED"
  <2>1. StatusChanged(NameOf(a), "CONNECTED")
    BY <1>5 DEF PollUp
  <2>2. UNCHANGED <<connections, reported>> /\ ever' = ever \union {a}
    BY <1>2, <2>1 DEF StatusChanged
  <2>3. /\ row'[NameOf(a)] = "CONNECTED"
        /\ \A n \in Names \ {NameOf(a)} : row'[n] = row[n]
    BY <1>2, <2>1, ChangePoints
  <2> QED
    BY <1>1, <1>3, <2>2, <2>3
<1> QED
  BY <1>4, <1>5

\* stopVPN(): the attempt of the entry, which is not watched afterwards.
LEMMA StopFacts ==
  ASSUME BarracudaInv, NEW n \in Names, StopVPN(n), NEW c, c = connections[n]
  PROVE  /\ c \in Started /\ NameOf(c) = n /\ status[c] # "CONNECTING" /\ client' = "down"
         /\ polling' = polling \ {c}
         /\ status'[c] = "DISCONNECTED" /\ \A b \in Attempts \ {c} : status'[b] = status[b]
         /\ connections'[n] = 0 /\ row'[n] = "DISCONNECTED"
         /\ \A m \in Names \ {n} : /\ connections'[m] = connections[m] /\ row'[m] = row[m]
                                   /\ connections[m] # c
         /\ ever' = ever
         /\ reported' = IF c \in ever THEN reported ELSE reported \union {c}
         /\ gui = "up" /\ UNCHANGED <<started, starter, conf, gui, wasUp, holes>>
<1>1. /\ c \in Started /\ NameOf(c) = n /\ c # 0 /\ status[c] # "CONNECTING"
  BY TypeFacts DEF StopVPN, BarracudaInv, BookInv
<1>2. StatusChanged(n, "DISCONNECTED") /\ client' = "down" /\ polling' = polling \ {c}
      /\ status' = [status EXCEPT ![c] = "DISCONNECTED"]
      /\ gui = "up" /\ UNCHANGED <<started, starter, conf, gui, wasUp, holes>>
  BY DEF StopVPN, Disconnect
<1>3. status'[c] = "DISCONNECTED" /\ \A b \in Attempts \ {c} : status'[b] = status[b]
  BY <1>1, <1>2, TypeFacts
<1>4. connections'[n] = 0 /\ row'[n] = "DISCONNECTED"
      /\ \A m \in Names \ {n} : connections'[m] = connections[m] /\ row'[m] = row[m]
  BY <1>2, ChangePoints
<1>5. \A m \in Names \ {n} : connections[m] # c
  BY <1>1 DEF BarracudaInv, BookInv
<1>6. ever' = ever /\ reported' = IF c \in ever THEN reported ELSE reported \union {c}
  BY <1>1, <1>2 DEF StatusChanged
<1> QED
  BY <1>1, <1>2, <1>3, <1>4, <1>5, <1>6

LEMMA MemoryStep ==
  ASSUME BarracudaInv, [Next]_vars
  PROVE  MemoryInv'
<1> SUFFICES ASSUME "twice" \notin holes', gui' = "up"
             PROVE  MemoryInv'
  BY DEF MemoryInv
<1>a. /\ EntryInv /\ BookInv
      /\ "twice" \notin holes /\ gui = "up" =>
           /\ \A a \in Started : Watched(a) => a \notin reported
           /\ \A a \in Started : Starting(a) => a \notin ever /\ a \notin wasUp
           /\ \A a \in polling : a \in ever <=> a \in wasUp
           /\ \A a \in polling : a \in wasUp <=> status[a] = "CONNECTED"
           /\ \A n \in Names : connections[n] # 0 /\ starter[connections[n]] = "done"
                => connections[n] \in polling
  BY DEF BarracudaInv, MemoryInv
<1>b. gui = "up" => "quit" \notin holes
  BY <1>a DEF BookInv
<1>1. ASSUME NEW n \in Names, Starts(n) PROVE MemoryInv'
  <2>1. PICK a : a = Len(started) + 1
    OBVIOUS
  <2>2. /\ a \in Attempts \ Started /\ holes \subseteq holes' /\ Started' = Started \union {a}
        /\ gui = "up" /\ UNCHANGED <<polling, ever, reported, wasUp>>
    BY <1>1, <2>1, StartFacts
  <2>3. /\ connections'[n] = a /\ starter'[a] # "done"
        /\ \A m \in Names \ {n} : connections'[m] = connections[m]
        /\ \A b \in Attempts \ {a} : starter'[b] = starter[b] /\ status'[b] = status[b]
    BY <1>1, <2>1, StartPoints
  <2>4. \A b \in Started' : Watched(b)' => b = a \/ Watched(b)
    BY <2>2, <2>3, TypeFacts DEF Watched, Starting
  <2>5. \A b \in Started' : Starting(b)' => b = a \/ Starting(b)
    BY <2>2, <2>3, TypeFacts DEF Starting
  <2>6. \A b \in polling : b \in Attempts \ {a}
    BY <2>2, TypeFacts
  <2>7. \A m \in Names : connections'[m] # 0 /\ starter'[connections'[m]] = "done"
          => connections'[m] \in polling
    BY <1>a, <2>2, <2>3, TypeFacts
  <2>8. \A b \in Started' : /\ Watched(b)' => b \notin reported'
                            /\ Starting(b)' => b \notin ever' /\ b \notin wasUp'
    BY <1>a, <2>2, <2>4, <2>5, TypeFacts
  <2>9. \A b \in polling' : /\ b \in ever' <=> b \in wasUp'
                            /\ b \in wasUp' <=> status'[b] = "CONNECTED"
    BY <1>a, <2>2, <2>3, <2>6
  <2> QED
    BY <2>2, <2>7, <2>8, <2>9 DEF MemoryInv
<1>2. ASSUME NEW n \in Names, AskOtp(n) PROVE MemoryInv'
  BY <1>a, <1>2 DEF AskOtp, MemoryInv, managerVars, attemptVars, clientVars, Started,
                    Watched, Starting
<1>3. ASSUME NEW n \in Names, StopVPN(n) PROVE MemoryInv'
  <2>1. PICK c : c = connections[n]
    OBVIOUS
  <2>2. /\ c \in Started /\ status[c] # "CONNECTING" /\ polling' = polling \ {c}
        /\ \A b \in Attempts \ {c} : status'[b] = status[b]
        /\ connections'[n] = 0
        /\ \A m \in Names \ {n} : connections'[m] = connections[m] /\ connections[m] # c
        /\ ever' = ever /\ reported' \subseteq reported \union {c}
        /\ gui = "up" /\ UNCHANGED <<started, starter, wasUp, holes>>
    BY <1>3, <2>1, StopFacts
  <2>3. ~Starting(c)
    BY <1>a, <1>b, <2>2 DEF EntryInv
  <2>4. \A b \in Started' : Watched(b)' => b # c /\ b \in Started /\ Watched(b)
    BY <2>2, <2>3 DEF Watched, Starting, Started
  <2>5. \A m \in Names : connections'[m] # 0 /\ starter'[connections'[m]] = "done"
          => connections'[m] \in polling'
    BY <1>a, <2>2
  <2> QED
    BY <1>a, <2>2, <2>4, <2>5, TypeFacts DEF MemoryInv, Starting, Started
<1>4. CASE Quit
  BY <1>4 DEF Quit
<1>5. CASE RefreshList
  BY <1>a, <1>5 DEF RefreshList, MemoryInv, attemptVars, clientVars, Started, Watched,
                    Starting
<1>6. CASE ClientStep
  BY <1>a, <1>6 DEF ClientStep, ClientBreaks, ClientReturns, ClientGivesUp, MemoryInv,
                    managerVars, attemptVars, Started, Watched, Starting
<1>7. ASSUME NEW a \in Started, StarterEnds(a) PROVE MemoryInv'
  <2>1. /\ UNCHANGED <<managerVars, started, status, polling, wasUp, gui, holes>>
        /\ Starting(a) /\ starter'[a] # "done"
        /\ \A b \in Attempts \ {a} : starter'[b] = starter[b]
    BY <1>7, TypeFacts DEF StarterEnds, Starting
  <2>2. \A b \in Started' : b \in Started /\ (Starting(b)' => Starting(b))
    BY <2>1, TypeFacts DEF Starting, Started
  <2>3. \A b \in Started' : Watched(b)' => Watched(b)
    BY <2>1, <2>2 DEF Watched
  <2>4. \A n \in Names : connections'[n] # 0 /\ starter'[connections'[n]] = "done"
          => connections'[n] \in polling'
    BY <1>a, <2>1, TypeFacts DEF managerVars
  <2> QED
    BY <1>a, <2>1, <2>2, <2>3, <2>4 DEF MemoryInv, managerVars
<1>8. ASSUME NEW a \in Started, StarterFinished(a) PROVE MemoryInv'
  <2>1. /\ gui = "up" /\ UNCHANGED <<started, wasUp, holes>>
        /\ Starting(a) /\ Watched(a) /\ starter'[a] = "done" /\ a \notin polling
        /\ \A b \in Attempts \ {a} : /\ starter'[b] = starter[b] /\ status'[b] = status[b]
                                     /\ b \in polling' <=> b \in polling
    BY <1>8, SlotFacts, TypeFacts DEF StarterFinished, Starting, Watched
  <2>2. /\ status[a] = "CONNECTING" /\ a \notin reported /\ a \notin ever /\ a \notin wasUp
        /\ holes \intersect {"twice", "quit"} = {}
    BY <1>a, <1>b, <2>1 DEF EntryInv
  <2>3. \A b \in Started' : Starting(b)' => b \in Started \ {a} /\ Starting(b)
    BY <2>1, TypeFacts DEF Starting, Started
  <2>4. CASE StatusChanged(NameOf(a), "DISCONNECTED") /\ polling' = polling
    <3>1. /\ connections'[NameOf(a)] = 0 /\ ever' = ever
          /\ \A n \in Names \ {NameOf(a)} :
               connections'[n] = connections[n] /\ connections[n] # a
          /\ reported' \subseteq reported \union {a}
      BY <2>1, <2>2, <2>4, EndOfOwn
    <3>2. \A b \in Started' : Watched(b)' => b \in Started \ {a} /\ Watched(b)
      BY <2>1, <2>3, <2>4, TypeFacts DEF Watched, Started
    <3>3. \A n \in Names : connections'[n] # 0 /\ starter'[connections'[n]] = "done"
            => connections'[n] \in polling'
      <4>1. ASSUME NEW n \in Names \ {NameOf(a)}, connections[n] # 0,
                   starter'[connections[n]] = "done"
            PROVE  connections[n] \in polling
        <5>1. connections[n] \in Attempts \ {a}
          BY <3>1, <4>1, TypeFacts
        <5>2. starter[connections[n]] = "done"
          BY <2>1, <4>1, <5>1
        <5> QED
          BY <1>a, <2>1, <2>2, <4>1, <5>2
      <4> QED
        BY <2>4, <3>1, <4>1
    <3>4. \A b \in Started' : /\ Watched(b)' => b \notin reported'
                              /\ Starting(b)' => b \notin ever' /\ b \notin wasUp'
      BY <1>a, <2>1, <2>2, <2>3, <3>1, <3>2
    <3>5. \A b \in polling' : /\ b \in ever' <=> b \in wasUp'
                              /\ b \in wasUp' <=> status'[b] = "CONNECTED"
      <4>1. polling' = polling /\ \A b \in polling : b \in Attempts \ {a}
        BY <2>1, <2>4, TypeFacts
      <4>2. \A b \in polling : status'[b] = status[b]
        BY <2>1, <4>1
      <4>3. \A b \in polling : /\ b \in ever <=> b \in wasUp
                               /\ b \in wasUp <=> status[b] = "CONNECTED"
        BY <1>a, <2>1, <2>2
      <4> QED
        BY <2>1, <3>1, <4>1, <4>2, <4>3
    <3> QED
      BY <3>3, <3>4, <3>5 DEF MemoryInv
  <2>5. CASE polling' = polling \union {a} /\ UNCHANGED <<managerVars, status>>
    <3>1. \A b \in Started' : Watched(b)' => b \in Started /\ Watched(b)
      BY <2>1, <2>3, <2>5 DEF Watched, Started
    <3>2. \A n \in Names : connections'[n] # 0 /\ starter'[connections'[n]] = "done"
            => connections'[n] \in polling'
      BY <1>a, <2>1, <2>2, <2>5, TypeFacts DEF managerVars
    <3>3. \A b \in Started' : /\ Watched(b)' => b \notin reported'
                              /\ Starting(b)' => b \notin ever' /\ b \notin wasUp'
      BY <1>a, <2>1, <2>2, <2>3, <2>5, <3>1 DEF managerVars
    <3>4. \A b \in polling' : /\ b \in ever' <=> b \in wasUp'
                              /\ b \in wasUp' <=> status'[b] = "CONNECTED"
      BY <1>a, <2>1, <2>2, <2>5 DEF managerVars
    <3> QED
      BY <3>2, <3>3, <3>4 DEF MemoryInv
  <2> QED
    BY <1>8, <2>4, <2>5 DEF StarterFinished
<1>9. ASSUME NEW a \in Started, StatusCheck(a) PROVE MemoryInv'
  <2>1. /\ gui = "up" /\ UNCHANGED <<started, starter>> /\ holes \subseteq holes'
        /\ a \in polling /\ Watched(a)
        /\ \A b \in Attempts \ {a} : status'[b] = status[b]
    BY <1>9, SlotFacts DEF StatusCheck
  <2>2. holes \intersect {"twice", "quit"} = {} /\ a \notin reported
    BY <1>a, <1>b, <2>1, TypeFacts
  <2>3. \A b \in Started' : Starting(b)' => b \in Started \ {a} /\ Starting(b)
    BY <2>1, TypeFacts DEF Starting, Started
  <2>4. CASE PollUp(a)
    <3>1. /\ UNCHANGED <<connections, reported, polling>> /\ status'[a] = "CONNECTED"
          /\ wasUp' = wasUp \union {a} /\ ever' = ever \union {a}
      BY <2>1, <2>2, <2>4, PollOfOwn
    <3>2. \A b \in Started' : Watched(b)' => b \in Started /\ Watched(b)
      BY <2>1, <3>1, <2>3 DEF Watched, Started
    <3> QED
      BY <1>a, <2>1, <2>2, <2>3, <3>1, <3>2, TypeFacts DEF MemoryInv
  <2>5. CASE StatusChanged(NameOf(a), "DISCONNECTED") /\ polling' = polling \ {a}
             /\ UNCHANGED wasUp
    <3>1. /\ connections'[NameOf(a)] = 0 /\ ever' = ever
          /\ \A n \in Names \ {NameOf(a)} :
               connections'[n] = connections[n] /\ connections[n] # a
          /\ reported' \subseteq reported \union {a}
      BY <2>1, <2>2, <2>5, EndOfOwn, TypeFacts
    <3>2. \A b \in Started' : Watched(b)' => b \in Started \ {a} /\ Watched(b)
      BY <2>1, <2>3, <2>5 DEF Watched, Started
    <3>3. \A n \in Names : connections'[n] # 0 /\ starter'[connections'[n]] = "done"
            => connections'[n] \in polling'
      BY <1>a, <2>1, <2>2, <2>5, <3>1
    <3> QED
      BY <1>a, <2>1, <2>2, <2>3, <2>5, <3>1, <3>2, <3>3, TypeFacts DEF MemoryInv
  <2> QED
    BY <1>9, <2>4, <2>5 DEF StatusCheck
<1>10. CASE UNCHANGED vars
  BY <1>a, <1>10 DEF vars, MemoryInv, managerVars, attemptVars, clientVars, Started,
                     Watched, Starting
<1> QED
  BY Steps, <1>1, <1>2, <1>3, <1>4, <1>5, <1>6, <1>7, <1>8, <1>9, <1>10

LEMMA EndStep ==
  ASSUME BarracudaInv, [Next]_vars
  PROVE  EndIsExplained'
<1> DEFINE Over(a) == starter[a] = "done" /\ a \notin polling
<1>a. /\ EntryInv /\ BookInv /\ MemoryInv
      /\ "twice" \notin holes /\ gui = "up" =>
           \A a \in Started : Over(a) => (a \in reported <=> a \notin wasUp)
  BY DEF BarracudaInv, EndIsExplained
<1>b. gui = "up" => "quit" \notin holes
  BY <1>a DEF BookInv
<1>c. SUFFICES ASSUME "twice" \notin holes', gui' = "up", NEW b \in Started', Over(b)'
               PROVE  b \in reported' <=> b \notin wasUp'
  BY DEF EndIsExplained
<1>1. ASSUME NEW n \in Names, Starts(n) PROVE b \in reported' <=> b \notin wasUp'
  <2>1. PICK a : a = Len(started) + 1
    OBVIOUS
  <2>2. /\ holes \subseteq holes' /\ Started' = Started \union {a} /\ Started \subseteq Attempts
        /\ a \notin Started /\ gui = "up" /\ UNCHANGED <<polling, reported, wasUp>>
    BY <1>1, <2>1, StartFacts, TypeFacts
  <2>3. starter'[a] # "done" /\ \A c \in Attempts \ {a} : starter'[c] = starter[c]
    BY <1>1, <2>1, StartPoints
  <2> QED
    BY <1>a, <1>c, <2>2, <2>3
<1>2. ASSUME NEW n \in Names, AskOtp(n) PROVE b \in reported' <=> b \notin wasUp'
  BY <1>a, <1>c, <1>2 DEF AskOtp, managerVars, attemptVars, clientVars, Started
<1>3. ASSUME NEW n \in Names, StopVPN(n) PROVE b \in reported' <=> b \notin wasUp'
  <2>1. PICK c : c = connections[n]
    OBVIOUS
  <2>2. /\ c \in Started /\ status[c] # "CONNECTING" /\ polling' = polling \ {c}
        /\ reported' = IF c \in ever THEN reported ELSE reported \union {c}
        /\ gui = "up" /\ UNCHANGED <<started, starter, wasUp, holes>>
    BY <1>3, <2>1, StopFacts
  <2>3. CASE b = c
    <3>1. c \in polling
      BY <1>a, <1>c, <1>3, <2>1, <2>2, <2>3 DEF MemoryInv, StopVPN
    <3>2. status[c] = "CONNECTED"
      BY <1>a, <1>b, <1>c, <2>2, <3>1, TypeFacts DEF EntryInv, Statuses
    <3>3. c \in ever /\ c \in wasUp /\ c \notin reported
      BY <1>a, <1>c, <2>2, <3>1, <3>2 DEF MemoryInv, Watched
    <3> QED
      BY <2>2, <2>3, <3>3
  <2>4. CASE b # c
    BY <1>a, <1>c, <2>2, <2>4 DEF Started
  <2> QED
    BY <2>3, <2>4
<1>4. CASE Quit
  BY <1>c, <1>4 DEF Quit
<1>5. CASE RefreshList
  BY <1>a, <1>c, <1>5 DEF RefreshList, attemptVars, clientVars, Started
<1>6. CASE ClientStep
  BY <1>a, <1>c, <1>6 DEF ClientStep, ClientBreaks, ClientReturns, ClientGivesUp,
                          managerVars, attemptVars, Started
<1>7. ASSUME NEW a \in Started, StarterEnds(a) PROVE b \in reported' <=> b \notin wasUp'
  <2>1. /\ UNCHANGED <<managerVars, started, polling, wasUp, gui, holes>>
        /\ starter'[a] # "done" /\ \A c \in Attempts \ {a} : starter'[c] = starter[c]
    BY <1>7, TypeFacts DEF StarterEnds
  <2> QED
    BY <1>a, <1>c, <2>1, TypeFacts DEF managerVars, Started
<1>8. ASSUME NEW a \in Started, StarterFinished(a) PROVE b \in reported' <=> b \notin wasUp'
  <2>1. /\ gui = "up" /\ UNCHANGED <<started, wasUp, holes>>
        /\ Starting(a) /\ Watched(a)
        /\ \A c \in Attempts \ {a} : /\ starter'[c] = starter[c]
                                     /\ c \in polling' <=> c \in polling
    BY <1>8, SlotFacts DEF StarterFinished, Starting, Watched
  <2>2. /\ a \notin reported /\ a \notin ever /\ a \notin wasUp
        /\ holes \intersect {"twice", "quit"} = {}
    BY <1>a, <1>b, <1>c, <2>1 DEF MemoryInv
  <2>3. b \in Started /\ (b # a => Over(b))
    BY <1>c, <2>1, TypeFacts DEF Started
  <2>4. CASE StatusChanged(NameOf(a), "DISCONNECTED")
    <3>1. reported' = reported \union {a}
      BY <2>1, <2>2, <2>4, EndOfOwn
    <3> QED
      BY <1>a, <1>c, <2>1, <2>2, <2>3, <3>1
  <2>5. CASE polling' = polling \union {a} /\ UNCHANGED <<managerVars, status>>
    BY <1>a, <1>c, <2>1, <2>3, <2>5 DEF managerVars
  <2> QED
    BY <1>8, <2>4, <2>5 DEF StarterFinished
<1>9. ASSUME NEW a \in Started, StatusCheck(a) PROVE b \in reported' <=> b \notin wasUp'
  <2>1. /\ gui = "up" /\ UNCHANGED <<started, starter>> /\ holes \subseteq holes'
        /\ a \in polling /\ Watched(a)
        /\ \A c \in Attempts \ {a} : c \in polling' <=> c \in polling
    BY <1>9, SlotFacts DEF StatusCheck
  <2>2. /\ holes \intersect {"twice", "quit"} = {} /\ a \notin reported
        /\ a \in ever <=> a \in wasUp
    BY <1>a, <1>b, <1>c, <2>1, TypeFacts DEF MemoryInv
  <2>3. b \in Started /\ (b # a => Over(b))
    BY <1>c, <2>1, TypeFacts DEF Started
  <2>4. CASE PollUp(a)
    <3>1. UNCHANGED <<reported, polling>> /\ wasUp' = wasUp \union {a}
      BY <2>1, <2>2, <2>4, PollOfOwn
    <3> QED
      BY <1>a, <1>c, <2>1, <2>2, <2>3, <3>1
  <2>5. CASE StatusChanged(NameOf(a), "DISCONNECTED") /\ UNCHANGED wasUp
    <3>1. reported' = IF a \in ever THEN reported ELSE reported \union {a}
      BY <2>1, <2>2, <2>5, EndOfOwn, TypeFacts
    <3> QED
      BY <1>a, <1>c, <2>1, <2>2, <2>3, <2>5, <3>1
  <2> QED
    BY <1>9, <2>4, <2>5 DEF StatusCheck
<1>10. CASE UNCHANGED vars
  BY <1>a, <1>c, <1>10 DEF vars, managerVars, attemptVars, clientVars, Started
<1> QED
  BY Steps, <1>1, <1>2, <1>3, <1>4, <1>5, <1>6, <1>7, <1>8, <1>9, <1>10

-----------------------------------------------------------------------------
(* One attempt at a time.                                                  *)

LEMMA OneStep ==
  ASSUME BarracudaInv, [Next]_vars
  PROVE  OneInv'
<1> SUFFICES ASSUME holes' = {}, gui' = "up"
             PROVE  OneInv'
  BY DEF OneInv
<1>a. /\ EntryInv /\ BookInv /\ MemoryInv /\ TunnelIsManaged
      /\ holes = {} /\ gui = "up" =>
           /\ \A a, b \in Started :
                status[a] # "DISCONNECTED" /\ status[b] # "DISCONNECTED" => a = b
           /\ \A a \in Started : status[a] # "DISCONNECTED" =>
                /\ conf = NameOf(a)
                /\ client # "down" => serves = NameOf(a)
           /\ \A n \in Names : row[n] = "CONNECTED" =>
                connections[n] # 0 /\ status[connections[n]] = "CONNECTED"
  BY DEF BarracudaInv, OneInv
<1>b. ASSUME holes = {}, gui = "up", NEW n \in Names, row[n] = "CONNECTED"
      PROVE  connections[n] \in Attempts /\ connections[n] # 0
             /\ connections[n] \in Started /\ status[connections[n]] = "CONNECTED"
  BY <1>a, <1>b, TypeFacts
<1>1. ASSUME NEW n \in Names, Starts(n) PROVE OneInv'
  <2>1. PICK a : a = Len(started) + 1
    OBVIOUS
  <2>2. /\ holes = {} /\ Started' = Started \union {a} /\ a \in Attempts \ Started
        /\ started'[a] = n /\ gui = "up" /\ UNCHANGED <<client, serves>>
        /\ ~SomeBarracudaConnected
        /\ \A b \in Started : status[b] # "CONNECTING"
    BY <1>1, <2>1, StartFacts
  <2>3. /\ \A b \in Attempts \ {a} : status'[b] = status[b]
        /\ status'[a] = "DISCONNECTED" \/ conf' = n
        /\ \A m \in Names \ {n} : row'[m] = row[m]
        /\ row'[n] = "CONNECTING" \/ row'[n] = row[n]
    BY <1>1, <2>1, StartPoints
  <2>4. \A b \in Started : status[b] = "DISCONNECTED"
    <3>1. ASSUME NEW b \in Started, status[b] = "CONNECTED" PROVE FALSE
      <4>1. b \in polling
        BY <1>a, <2>2, <3>1 DEF EntryInv
      <4>2. connections[NameOf(b)] = b /\ NameOf(b) \in Names /\ b # 0
        BY <2>2, <4>1, OwnEntry DEF Watched
      <4> QED
        BY <2>2, <3>1, <4>2 DEF SomeBarracudaConnected
    <3> QED
      BY <2>2, <3>1, TypeFacts DEF Statuses
  <2>5. client = "down"
    <3>1. ASSUME client # "down" PROVE FALSE
      <4>1. PICK m \in Names : /\ connections[m] # 0
                               /\ connections[m] \in polling \/ starter[connections[m]] = "ended"
        BY <1>a, <2>2, <3>1 DEF TunnelIsManaged
      <4>2. connections[m] \in Started
        BY <4>1, TypeFacts
      <4> QED
        BY <1>a, <2>2, <2>4, <4>1, <4>2 DEF EntryInv, Starting
    <3> QED
      BY <3>1
  <2>6. \A m \in Names : row'[m] # "CONNECTED"
    <3>1. \A m \in Names : row[m] # "CONNECTED"
      BY <1>b, <2>2, <2>4
    <3> QED
      BY <2>3, <3>1
  <2>7. \A b \in Started' : status'[b] # "DISCONNECTED" => b = a
    BY <2>2, <2>3, <2>4, TypeFacts
  <2> QED
    BY <2>2, <2>3, <2>5, <2>6, <2>7 DEF OneInv, NameOf
<1>2. ASSUME NEW n \in Names, AskOtp(n) PROVE OneInv'
  BY <1>a, <1>2 DEF AskOtp, OneInv, managerVars, attemptVars, clientVars, Started, NameOf
<1>3. ASSUME NEW n \in Names, StopVPN(n) PROVE OneInv'
  <2>1. PICK c : c = connections[n]
    OBVIOUS
  <2>2. /\ client' = "down" /\ status'[c] = "DISCONNECTED"
        /\ \A b \in Attempts \ {c} : status'[b] = status[b]
        /\ row'[n] = "DISCONNECTED"
        /\ \A m \in Names \ {n} : /\ connections'[m] = connections[m] /\ row'[m] = row[m]
                                  /\ connections[m] # c
        /\ gui = "up" /\ UNCHANGED <<started, conf, holes>>
    BY <1>3, <2>1, StopFacts
  <2>3. \A b \in Started' : b \in Started /\ NameOf(b)' = NameOf(b)
                            /\ (status'[b] # "DISCONNECTED" => status[b] # "DISCONNECTED")
    BY <2>2, TypeFacts DEF Started, NameOf
  <2>4. \A m \in Names : row'[m] = "CONNECTED" =>
          connections'[m] # 0 /\ status'[connections'[m]] = "CONNECTED"
    <3>1. ASSUME NEW m \in Names \ {n}, row[m] = "CONNECTED"
          PROVE  connections[m] # 0 /\ status'[connections[m]] = "CONNECTED"
      BY <1>b, <2>2, <3>1
    <3> QED
      BY <2>2, <3>1
  <2> QED
    BY <1>a, <2>2, <2>3, <2>4 DEF OneInv
<1>4. CASE Quit
  BY <1>4 DEF Quit
<1>5. CASE RefreshList
  <2>1. \A n \in Names : row'[n] = IF connections[n] = 0 THEN "DISCONNECTED"
                                   ELSE status[connections[n]]
    BY <1>5 DEF RefreshList
  <2>2. \A n \in Names : row'[n] = "CONNECTED" =>
          connections[n] # 0 /\ status[connections[n]] = "CONNECTED"
    BY <2>1
  <2> QED
    BY <1>a, <1>5, <2>2 DEF RefreshList, OneInv, attemptVars, clientVars, Started, NameOf
<1>6. CASE ClientStep
  BY <1>a, <1>6 DEF ClientStep, ClientBreaks, ClientReturns, ClientGivesUp, OneInv,
                    managerVars, attemptVars, Started, NameOf
<1>7. ASSUME NEW a \in Started, StarterEnds(a) PROVE OneInv'
  <2>1. /\ UNCHANGED <<managerVars, started, status, conf, gui, holes>> /\ Starting(a)
        /\ client' # "down" => UNCHANGED serves \/ serves' = conf
        /\ client' # "down" /\ UNCHANGED serves => client # "down" \/ serves' = conf
    BY <1>7, TypeFacts DEF StarterEnds, Starting
  <2>2. holes \intersect {"twice", "quit"} = {} /\ gui = "up" /\ holes = {}
    BY <2>1
  <2>3. status[a] # "DISCONNECTED" /\ conf = NameOf(a)
    BY <1>a, <2>1, <2>2 DEF EntryInv
  <2>4. \A b \in Started : status[b] # "DISCONNECTED" => b = a
    BY <1>a, <2>2, <2>3
  <2>5. client' # "down" => serves' = NameOf(a)
    BY <1>a, <2>1, <2>2, <2>3
  <2> QED
    BY <1>a, <2>1, <2>2, <2>3, <2>4, <2>5 DEF OneInv, managerVars, Started, NameOf
<1>8. ASSUME NEW a \in Started, StarterFinished(a) PROVE OneInv'
  <2>1. /\ gui = "up" /\ UNCHANGED <<started, client, serves, conf, holes>> /\ Watched(a)
        /\ \A b \in Attempts \ {a} : status'[b] = status[b]
    BY <1>8, SlotFacts DEF StarterFinished
  <2>2. CASE /\ StatusChanged(NameOf(a), "DISCONNECTED")
             /\ status' = [status EXCEPT ![a] = "DISCONNECTED"]
    <3>1. /\ row'[NameOf(a)] = "DISCONNECTED"
          /\ \A n \in Names \ {NameOf(a)} : /\ connections'[n] = connections[n]
                                            /\ row'[n] = row[n] /\ connections[n] # a
      BY <2>1, <2>2, EndOfOwn
    <3>2. status'[a] = "DISCONNECTED"
      BY <2>2, TypeFacts
    <3>3. \A b \in Started' : b \in Started /\ NameOf(b)' = NameOf(b)
                              /\ (status'[b] # "DISCONNECTED" => status[b] # "DISCONNECTED")
      BY <2>1, <3>2, TypeFacts DEF Started, NameOf
    <3>4. \A n \in Names : row'[n] = "CONNECTED" =>
            connections'[n] # 0 /\ status'[connections'[n]] = "CONNECTED"
      <4>1. ASSUME NEW n \in Names \ {NameOf(a)}, row[n] = "CONNECTED"
            PROVE  connections[n] # 0 /\ status'[connections[n]] = "CONNECTED"
        BY <1>b, <2>1, <3>1, <4>1
      <4> QED
        BY <3>1, <4>1
    <3> QED
      BY <1>a, <2>1, <3>3, <3>4 DEF OneInv
  <2>3. CASE UNCHANGED <<managerVars, status>>
    BY <1>a, <2>1, <2>3 DEF OneInv, managerVars, Started, NameOf
  <2> QED
    BY <1>8, <2>2, <2>3 DEF StarterFinished
<1>9. ASSUME NEW a \in Started, StatusCheck(a) PROVE OneInv'
  <2>1. /\ gui = "up" /\ UNCHANGED <<started, client, serves, conf>> /\ holes = {}
        /\ a \in polling /\ Watched(a)
        /\ \A b \in Attempts \ {a} : status'[b] = status[b]
    BY <1>9, SlotFacts DEF StatusCheck
  <2>2. status[a] # "DISCONNECTED"
    BY <1>a, <2>1 DEF EntryInv
  <2>3. CASE PollUp(a)
    <3>1. /\ UNCHANGED connections /\ status'[a] = "CONNECTED"
          /\ \A n \in Names \ {NameOf(a)} : row'[n] = row[n]
      BY <2>1, <2>3, PollOfOwn
    <3>2. connections[NameOf(a)] = a /\ a # 0
      BY <2>1, OwnEntry
    <3>3. \A b \in Started' : b \in Started /\ NameOf(b)' = NameOf(b)
                              /\ (status'[b] # "DISCONNECTED" => status[b] # "DISCONNECTED")
      BY <2>1, <2>2, TypeFacts DEF Started, NameOf
    <3>4. \A n \in Names \ {NameOf(a)} : row'[n] = "CONNECTED" =>
            connections'[n] # 0 /\ status'[connections'[n]] = "CONNECTED"
      <4>1. ASSUME NEW n \in Names \ {NameOf(a)}, row[n] = "CONNECTED"
            PROVE  connections[n] # 0 /\ status'[connections[n]] = "CONNECTED"
        BY <1>b, <2>1, <3>1, <4>1
      <4> QED
        BY <3>1, <4>1
    <3> QED
      BY <1>a, <2>1, <3>1, <3>2, <3>3, <3>4 DEF OneInv
  <2>4. CASE /\ StatusChanged(NameOf(a), "DISCONNECTED")
             /\ status' = [status EXCEPT ![a] = "DISCONNECTED"]
    <3>1. /\ row'[NameOf(a)] = "DISCONNECTED"
          /\ \A n \in Names \ {NameOf(a)} : /\ connections'[n] = connections[n]
                                            /\ row'[n] = row[n] /\ connections[n] # a
      BY <2>1, <2>4, EndOfOwn
    <3>2. status'[a] = "DISCONNECTED"
      BY <2>4, TypeFacts
    <3>3. \A b \in Started' : b \in Started /\ NameOf(b)' = NameOf(b)
                              /\ (status'[b] # "DISCONNECTED" => status[b] # "DISCONNECTED")
      BY <2>1, <3>2, TypeFacts DEF Started, NameOf
    <3>4. \A n \in Names : row'[n] = "CONNECTED" =>
            connections'[n] # 0 /\ status'[connections'[n]] = "CONNECTED"
      <4>1. ASSUME NEW n \in Names \ {NameOf(a)}, row[n] = "CONNECTED"
            PROVE  connections[n] # 0 /\ status'[connections[n]] = "CONNECTED"
        BY <1>b, <2>1, <3>1, <4>1
      <4> QED
        BY <3>1, <4>1
    <3> QED
      BY <1>a, <2>1, <3>3, <3>4 DEF OneInv
  <2> QED
    BY <1>9, <2>3, <2>4 DEF StatusCheck
<1>10. CASE UNCHANGED vars
  BY <1>a, <1>10 DEF vars, OneInv, managerVars, attemptVars, clientVars, Started, NameOf
<1> QED
  BY Steps, <1>1, <1>2, <1>3, <1>4, <1>5, <1>6, <1>7, <1>8, <1>9, <1>10

-----------------------------------------------------------------------------
(* The theorems.                                                           *)

LEMMA BarracudaStarts == BarracudaInit => BarracudaInv
<1> SUFFICES ASSUME BarracudaInit PROVE BarracudaInv
  OBVIOUS
<1>1. started = <<>> /\ asking = <<>>
  BY DEF BarracudaInit
<1>2. /\ Started = {} /\ Len(started) = 0 /\ Len(asking) = 0
      /\ started \in Seq(Names) /\ asking \in Seq(OtpNames)
  BY <1>1 DEF Started
<1>3. BarracudaTypeOK
  <2>1. /\ connections \in [Names -> 0 .. Len(started)]
        /\ Len(started) + Len(asking) <= MaxAttempts
    <3>1. Len(started) + Len(asking) <= MaxAttempts /\ 0 \in 0 .. Len(started)
      BY <1>2, Bound
    <3>2. connections = [n \in Names |-> 0]
      BY DEF BarracudaInit
    <3> QED
      BY <3>1, <3>2
  <2>2. /\ status \in [Attempts -> Statuses] /\ row \in [Names -> Statuses]
        /\ starter \in [Attempts -> StarterStates]
    BY DEF BarracudaInit, Statuses, StarterStates
  <2> QED
    BY <1>2, <2>1, <2>2 DEF BarracudaInit, BarracudaTypeOK, Holes
<1>4. BookInv
  BY DEF BarracudaInit, BookInv
<1>5. EntryInv /\ MemoryInv /\ EndIsExplained
  BY <1>2 DEF BarracudaInit, EntryInv, MemoryInv, EndIsExplained
<1>6. TunnelIsManaged /\ OneInv
  BY <1>2 DEF BarracudaInit, TunnelIsManaged, OneInv
<1> QED
  BY <1>3, <1>4, <1>5, <1>6 DEF BarracudaInv

\* The invariant holds throughout, however many profiles and attempts there
\* are and however their dialogs, polls and the vendor's client interleave.
THEOREM BarracudaInvariant == Spec => []BarracudaInv
<1>1. BarracudaInv /\ [Next]_vars => BarracudaInv'
  BY TypeStep, BookStep, EntryStep, TunnelStep, MemoryStep, EndStep, OneStep
     DEF BarracudaInv
<1> QED
  BY <1>1, BarracudaStarts, PTL DEF Spec

\* The types of everything the manager and the attempts keep; in particular
\* every entry is an attempt that was started, and only attempts whose --start
\* ended are polled.
THEOREM BarracudaTyped == Spec => []BarracudaTypeOK
<1>1. BarracudaInv => BarracudaTypeOK
  BY DEF BarracudaInv
<1> QED
  BY <1>1, BarracudaInvariant, PTL

\* A client that the GUI has brought up is watched by some entry, or is about
\* to be, so that stopVPN() can take it down.
THEOREM TunnelStaysManaged == Spec => []TunnelIsManaged
<1>1. BarracudaInv => TunnelIsManaged
  BY DEF BarracudaInv
<1> QED
  BY <1>1, BarracudaInvariant, PTL

\* onClientVPNStatusChanged() reports an attempt that is over exactly when it
\* was never connected.
THEOREM EndsAreExplained == Spec => []EndIsExplained
<1>1. BarracudaInv => EndIsExplained
  BY DEF BarracudaInv
<1> QED
  BY <1>1, BarracudaInvariant, PTL

\* A row that says "Connected" names the gateway the client is connected to.
THEOREM RowsTellGateway == Spec => []RowTellsGateway
<1>1. ASSUME BarracudaInv PROVE RowTellsGateway
  <2> SUFFICES ASSUME holes = {}, gui = "up", client # "down",
                      NEW n \in Names, row[n] = "CONNECTED"
               PROVE  serves = n
    BY DEF RowTellsGateway
  <2>1. connections[n] \in Started /\ status[connections[n]] = "CONNECTED"
    BY <1>1, TypeFacts DEF BarracudaInv, OneInv
  <2>2. NameOf(connections[n]) = n
    BY <1>1, <2>1, TypeFacts DEF BarracudaInv, BookInv
  <2> QED
    BY <1>1, <2>1, <2>2 DEF BarracudaInv, OneInv
<1> QED
  BY <1>1, BarracudaInvariant, PTL

=============================================================================

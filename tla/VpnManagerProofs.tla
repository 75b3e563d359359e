-------------------------- MODULE VpnManagerProofs --------------------------
(***************************************************************************)
(* What is proved about the GUI's manager, for any number of VPNs and      *)
(* attempts.  However the attempts of one name overlap, an ended process   *)
(* leaves the map and the window comes to rest.  When a name is only       *)
(* started again after its last attempt is settled, reports are true and   *)
(* complete, a running VPN can be stopped, and a stop reaches its process. *)
(***************************************************************************)
EXTENDS VpnManager, SequenceTheorems, TLAPS

\* An attempt that has not been started has left no trace.
Untouched(a) ==
  /\ child[a] = "none"
  /\ link[a] = "none"
  /\ due[a] = "none"
  /\ output[a] = "none"
  /\ result[a] = "none"

\* The bookkeeping of names, attempts and sockets: entries are of their name,
\* a socket in use is wired to the connection it was given to, and that has a
\* socket.
BookInv ==
  /\ \A a \in Attempts \ Started : Untouched(a)
  /\ \A a \in Attempts : child[a] \in {"none", "boot"} => link[a] = "none"
  /\ \A n \in Names : connections[n] # 0 =>
       connections[n] \in Started /\ NameOf(connections[n]) = n
  /\ \A c \in Attempts : wired[c] # 0 =>
       wired[c] \in Started /\ socketOf[wired[c]] # 0
  /\ \A c \in Attempts : link[c] = "open" => wired[c] # 0
  /\ \A c \in Attempts : link[c] \in {"none", "pending"} => wired[c] = 0
  /\ \A a \in Attempts : socketOf[a] # 0 => wired[socketOf[a]] = a
  /\ reports \subseteq Started

\* What QProcess has signalled, and what that leaves of the entry.
DueInv ==
  /\ \A a \in Attempts : child[a] = "ended" <=> due[a] # "none"
  /\ \A a \in Started : due[a] = "done" => connections[NameOf(a)] # a

\* A status is only known, and only shown, over a socket that is open.
WindowInv ==
  /\ \A a \in Attempts : status[a] # "DISCONNECTED" =>
       \E c \in Attempts : link[c] = "open" /\ wired[c] = a
  /\ tray => \E a \in Attempts : status[a] = "CONNECTED"
  /\ \A n \in Names : row[n] # "DISCONNECTED" =>
       \E c \in Attempts : link[c] = "open" /\ NameOf(wired[c]) = n

ManagerInv == ManagerTypeOK /\ BookInv /\ DueInv /\ WindowInv

-----------------------------------------------------------------------------
(* Without overlap.                                                        *)

\* Of one name only the last attempt is unsettled, and its socket is its own.
AloneInv ==
  /\ \A a, b \in Started : a < b /\ NameOf(a) = NameOf(b) => Settled(a)
  /\ \A c \in Attempts : wired[c] \in {0, c}
  /\ gui = "up"

\* What a child said and how it ended.
ChildInv ==
  /\ \A a \in Attempts : result[a] = "none" <=> child[a] # "ended"
  /\ \A a \in Attempts : result[a] = "nostart" => link[a] = "none"
  /\ \A a \in Attempts : due[a] = "error" => result[a] \in {"crash", "nostart"}
  /\ \A a \in Attempts : due[a] = "finished" => result[a] \in {"ok", "failed", "crash"}
  /\ \A a \in Attempts : \A i \in 1 .. Len(outbox[a]) :
       outbox[a][i] = "DISCONNECTED" => said[a] = "DISCONNECTED"

\* What has become of an attempt that has no entry any more.
FateInv ==
  /\ stopped \subseteq Started
  /\ told \subseteq stopped
  /\ \A a \in stopped : link[a] = "open" => a \in told
  /\ \A a \in stopped \union reports \union generic :
       a \in Started /\ connections[NameOf(a)] # a
  /\ \A a \in ever : a \in Started /\ result[a] # "nostart"
  /\ \A a \in Started : due[a] = "finished" /\ result[a] = "crash" =>
       connections[NameOf(a)] # a
  /\ \A a \in Started : \/ connections[NameOf(a)] = a
                        \/ a \in ever \union stopped \union reports
                        \/ a \in generic \union specific
                        \/ StartedAgain(a)
  /\ \A a \in Started : NameOf(a) \in explained => a \in specific \/ StartedAgain(a)

AloneManagerInv ==
  /\ ManagerInv /\ AloneInv /\ ChildInv /\ FateInv
  /\ LiveIsManaged /\ NoFalseReport

-----------------------------------------------------------------------------
(* Sequences.                                                              *)

\* The attempts are numbered from 1.
LEMMA StartedFacts ==
  ASSUME ManagerTypeOK
  PROVE  /\ Len(started) \in Nat
         /\ Started = 1 .. Len(started)
         /\ Started \subseteq Attempts
         /\ Attempts \subseteq Nat \ {0}
         /\ \A a \in Started : NameOf(a) \in Names
<1>1. started \in Seq(Names) /\ Len(started) <= MaxAttempts
  BY DEF ManagerTypeOK
<1>2. Len(started) \in Nat /\ Started = 1 .. Len(started)
  BY <1>1, LenProperties DEF Started
<1>3. \A a \in Started : NameOf(a) \in Names
  BY <1>1, <1>2, ElementOfSeq DEF NameOf
<1> QED
  BY <1>1, <1>2, <1>3, ManagerAssumption DEF Attempts

\* startVPN() takes the next number.
LEMMA StartGrows ==
  ASSUME ManagerTypeOK, NEW n \in Names, StartVPN(n)
  PROVE  LET a == Len(started) + 1 IN
         /\ a \in Attempts \ Started
         /\ Started' = Started \union {a}
         /\ started'[a] = n
         /\ \A b \in Started : started'[b] = started[b] /\ b < a
         /\ started' \in Seq(Names)
         /\ Len(started') <= MaxAttempts
<1> DEFINE a == Len(started) + 1
<1>1. started \in Seq(Names) /\ Len(started) \in Nat /\ Started = 1 .. Len(started)
  BY StartedFacts DEF ManagerTypeOK
<1>2. started' = Append(started, n) /\ a \in Attempts
  BY DEF StartVPN
<1>3. /\ started' \in Seq(Names)
      /\ Len(started') = a
      /\ \A b \in 1 .. Len(started) : started'[b] = started[b]
      /\ started'[a] = n
  BY <1>1, <1>2, AppendProperties
<1>4. Started' = 1 .. a
  BY <1>1, <1>3, LenProperties DEF Started
<1> QED
  BY <1>1, <1>2, <1>3, <1>4, ManagerAssumption DEF Attempts

\* Reading a message leaves the other ones, sending one comes last.
LEMMA OutboxFacts ==
  ASSUME NEW box \in Seq(Statuses), NEW m \in Statuses
  PROVE  /\ Append(box, m) \in Seq(Statuses)
         /\ \A i \in 1 .. Len(Append(box, m)) :
              \/ i \in 1 .. Len(box) /\ Append(box, m)[i] = box[i]
              \/ Append(box, m)[i] = m
         /\ box # <<>> =>
              /\ Head(box) \in Statuses
              /\ 1 \in 1 .. Len(box) /\ Head(box) = box[1]
              /\ Tail(box) \in Seq(Statuses)
              /\ \A i \in 1 .. Len(Tail(box)) :
                   i + 1 \in 1 .. Len(box) /\ Tail(box)[i] = box[i + 1]
<1>0. Len(box) \in Nat
  BY LenProperties
<1>1. /\ Append(box, m) \in Seq(Statuses)
      /\ Len(Append(box, m)) = Len(box) + 1
      /\ \A i \in 1 .. Len(box) : Append(box, m)[i] = box[i]
      /\ Append(box, m)[Len(box) + 1] = m
  BY AppendProperties
<1>2. \A i \in 1 .. Len(box) + 1 : i \in 1 .. Len(box) \/ i = Len(box) + 1
  BY <1>0
<1>3. ASSUME box # <<>>
      PROVE  /\ Head(box) \in Statuses
             /\ 1 \in 1 .. Len(box) /\ Head(box) = box[1]
             /\ Tail(box) \in Seq(Statuses)
             /\ \A i \in 1 .. Len(Tail(box)) :
                  i + 1 \in 1 .. Len(box) /\ Tail(box)[i] = box[i + 1]
  <2>1. /\ Head(box) \in Statuses /\ Tail(box) \in Seq(Statuses)
        /\ Len(Tail(box)) = Len(box) - 1
        /\ \A i \in 1 .. Len(Tail(box)) : Tail(box)[i] = box[i + 1]
    BY <1>3, HeadTailProperties
  <2>2. Len(box) # 0
    BY <1>3, EmptySeq
  <2>3. Head(box) = box[1]
    BY <1>3
  <2> QED
    BY <1>0, <2>1, <2>2, <2>3
<1> QED
  BY <1>1, <1>2, <1>3

-----------------------------------------------------------------------------
(* For any overlap.                                                        *)

\* Every slot keeps the types.
LEMMA TypeStep ==
  ASSUME ManagerTypeOK, BookInv, [Next]_vars
  PROVE  ManagerTypeOK'
<1> USE DEF childVars, socketVars, dialogVars, windowVars, managerVars
<1>0. /\ Started \subseteq Attempts
      /\ Attempts \subseteq Nat \ {0}
      /\ \A a \in Started : NameOf(a) \in Names
  BY StartedFacts
<1>1. CASE UNCHANGED vars
  BY <1>1 DEF ManagerTypeOK, vars
<1>2. ASSUME NEW n \in Names, StartVPN(n) PROVE ManagerTypeOK'
  <2>1. /\ started' \in Seq(Names) /\ Len(started') <= MaxAttempts
        /\ Len(started) + 1 \in Attempts
    BY <1>2, StartGrows
  <2>2. PICK a \in Attempts :
          /\ connections' = [connections EXCEPT ![n] = a]
          /\ \/ child' = [child EXCEPT ![a] = "boot"] /\ UNCHANGED <<result, due>>
             \/ /\ child' = [child EXCEPT ![a] = "ended"]
                /\ result' = [result EXCEPT ![a] = "nostart"]
                /\ due' = [due EXCEPT ![a] = "error"]
    BY <1>2, <2>1 DEF StartVPN
  <2>3. /\ child' \in [Attempts -> {"none", "boot", "online", "ended"}]
        /\ result' \in [Attempts -> {"none", "ok", "failed", "crash", "nostart"}]
        /\ due' \in [Attempts -> {"none", "error", "finished", "done"}]
    <3>1. /\ child \in [Attempts -> {"none", "boot", "online", "ended"}]
          /\ result \in [Attempts -> {"none", "ok", "failed", "crash", "nostart"}]
          /\ due \in [Attempts -> {"none", "error", "finished", "done"}]
      BY DEF ManagerTypeOK
    <3> QED
      BY <2>2, <3>1
  <2>4. connections' \in [Names -> Attempts \union {0}]
    BY <2>2 DEF ManagerTypeOK
  <2>5. /\ explained' \subseteq Names
        /\ UNCHANGED <<link, said, socketVars, output, specific, generic, windowVars,
                       status, ever, reports, stopped, told, gui>>
    BY <1>2 DEF ManagerTypeOK, StartVPN
  <2> QED
    BY <2>1, <2>3, <2>4, <2>5 DEF ManagerTypeOK
<1>3. ASSUME NEW n \in Names, StopVPN(n) PROVE ManagerTypeOK'
  BY <1>3 DEF ManagerTypeOK, StopVPN, Reached
<1>4. CASE RefreshList
  BY <1>4 DEF ManagerTypeOK, RefreshList, SomeClientConnected, Statuses
<1>5. ASSUME NEW a \in Attempts, ChildConnects(a) PROVE ManagerTypeOK'
  BY <1>5 DEF ManagerTypeOK, ChildConnects
<1>6. ASSUME NEW a \in Attempts, ChildReports(a) PROVE ManagerTypeOK'
  <2>1. PICK m \in Statuses :
          /\ said' = [said EXCEPT ![a] = m]
          /\ outbox' = [outbox EXCEPT ![a] = Append(@, m)]
    BY <1>6 DEF ChildReports, Child!NextStatus, ManagerTypeOK, Statuses
  <2>2. Append(outbox[a], m) \in Seq(Statuses)
    BY OutboxFacts DEF ManagerTypeOK
  <2>3. /\ said' \in [Attempts -> Statuses \union {"none"}]
        /\ outbox' \in [Attempts -> Seq(Statuses)]
    BY <2>1, <2>2 DEF ManagerTypeOK
  <2> QED
    BY <1>6, <2>3 DEF ManagerTypeOK, ChildReports
<1>7. ASSUME NEW a \in Attempts, ChildPrints(a) PROVE ManagerTypeOK'
  BY <1>7 DEF ManagerTypeOK, ChildPrints
<1>8. ASSUME NEW a \in Attempts, NEW r \in {"ok", "failed", "crash"}, ChildEnds(a, r)
      PROVE ManagerTypeOK'
  BY <1>8 DEF ManagerTypeOK, ChildEnds
<1>9. ASSUME NEW c \in Attempts, Accept(c) PROVE ManagerTypeOK'
  <2>1. NameOf(c) \in Names
    BY <1>0, <1>9 DEF Accept, BookInv, Untouched
  <2>2. CASE connections[NameOf(c)] # 0
    <3>1. connections[NameOf(c)] \in Attempts
      BY <2>1, <2>2 DEF ManagerTypeOK
    <3>2. /\ socketOf' = [socketOf EXCEPT ![connections[NameOf(c)]] = c]
          /\ wired' = [wired EXCEPT ![c] = connections[NameOf(c)]]
          /\ link' = [link EXCEPT ![c] = "open"]
      BY <1>9, <2>2 DEF Accept
    <3>3. /\ socketOf' \in [Attempts -> Attempts \union {0}]
          /\ wired' \in [Attempts -> Attempts \union {0}]
          /\ link' \in [Attempts -> {"none", "pending", "open", "dropped", "closed"}]
      BY <3>1, <3>2 DEF ManagerTypeOK
    <3>4. UNCHANGED <<child, result, due, said, outbox, readable, dialogVars, windowVars,
                      managerVars>>
      BY <1>9 DEF Accept
    <3> QED
      BY <3>3, <3>4 DEF ManagerTypeOK
  <2>3. CASE connections[NameOf(c)] = 0
    <3>1. /\ link' = [link EXCEPT ![c] = "dropped"]
          /\ UNCHANGED <<child, result, due, said, outbox, readable, socketOf, wired,
                         dialogVars, windowVars, managerVars>>
      BY <1>9, <2>3 DEF Accept
    <3>2. link' \in [Attempts -> {"none", "pending", "open", "dropped", "closed"}]
      BY <3>1 DEF ManagerTypeOK
    <3> QED
      BY <3>1, <3>2 DEF ManagerTypeOK
  <2> QED
    BY <2>2, <2>3
<1>10. ASSUME NEW n \in Names, NEW m \in Statuses, StatusChanged(n, m)
       PROVE  /\ ever' \subseteq Attempts
              /\ connections' \in [Names -> Attempts \union {0}]
              /\ reports' \subseteq Attempts
              /\ row' \in [Names -> Statuses]
              /\ tray' \in BOOLEAN
  BY <1>10 DEF ManagerTypeOK, StatusChanged, ShowStatus, SomeClientConnected
<1>11. ASSUME NEW c \in Attempts, ReadyRead(c) PROVE ManagerTypeOK'
  <2> DEFINE a == wired[c]
             s == socketOf[a]
  <2>1. a \in Started /\ s \in Attempts
    BY <1>11 DEF ReadyRead, BookInv, ManagerTypeOK
  <2>2. CASE UNCHANGED <<outbox, status, ever, connections, reports, windowVars>>
             /\ gui' \in {"up", "crashed"}
    BY <1>11, <2>2 DEF ManagerTypeOK, ReadyRead
  <2>3. CASE /\ outbox[s] # <<>>
             /\ outbox' = [outbox EXCEPT ![s] = Tail(@)]
             /\ status' = [status EXCEPT ![a] = Head(outbox[s])]
             /\ StatusChanged(NameOf(a), Head(outbox[s]))
             /\ UNCHANGED gui
    <3>1. Head(outbox[s]) \in Statuses /\ Tail(outbox[s]) \in Seq(Statuses)
      BY <2>1, <2>3, OutboxFacts DEF ManagerTypeOK
    <3>2. /\ ever' \subseteq Attempts
          /\ connections' \in [Names -> Attempts \union {0}]
          /\ reports' \subseteq Attempts
          /\ row' \in [Names -> Statuses]
          /\ tray' \in BOOLEAN
      BY <1>0, <1>10, <2>1, <2>3, <3>1
    <3>3. /\ outbox' \in [Attempts -> Seq(Statuses)]
          /\ status' \in [Attempts -> Statuses]
      BY <2>1, <2>3, <3>1 DEF ManagerTypeOK
    <3>4. /\ readable' \subseteq Attempts
          /\ UNCHANGED <<childVars, socketOf, wired, dialogVars, started, stopped, told>>
      BY <1>11 DEF ManagerTypeOK, ReadyRead
    <3> QED
      BY <2>3, <3>2, <3>3, <3>4 DEF ManagerTypeOK
  <2> QED
    BY <1>11, <2>2, <2>3 DEF ReadyRead, ManagerTypeOK
<1>12. ASSUME NEW c \in Attempts, Disconnected(c) PROVE ManagerTypeOK'
  <2>1. wired[c] \in Started /\ socketOf[wired[c]] \in Attempts
    BY <1>12 DEF Disconnected, BookInv, ManagerTypeOK
  <2>2. "DISCONNECTED" \in Statuses /\ <<>> \in Seq(Statuses)
    BY DEF Statuses
  <2>3. /\ ever' \subseteq Attempts
        /\ connections' \in [Names -> Attempts \union {0}]
        /\ reports' \subseteq Attempts
        /\ row' \in [Names -> Statuses]
        /\ tray' \in BOOLEAN
    BY <1>0, <1>10, <1>12, <2>1, <2>2 DEF Disconnected
  <2> QED
    BY <1>12, <2>1, <2>2, <2>3 DEF ManagerTypeOK, Disconnected
<1>13. ASSUME NEW a \in Attempts, ProcessFinished(a) PROVE ManagerTypeOK'
  <2>1. connections[NameOf(a)] \in Attempts \union {0}
    BY <1>0, <1>13 DEF ManagerTypeOK, ProcessFinished, BookInv, Untouched
  <2> QED
    BY <1>13, <2>1 DEF ManagerTypeOK, ProcessFinished, ProcessHandler
<1>14. ASSUME NEW a \in Attempts, ProcessError(a) PROVE ManagerTypeOK'
  <2>1. connections[NameOf(a)] \in Attempts \union {0}
    BY <1>0, <1>14 DEF ManagerTypeOK, ProcessError, BookInv, Untouched
  <2> QED
    BY <1>14, <2>1 DEF ManagerTypeOK, ProcessError, ProcessHandler
<1>15. ASSUME NEW a \in Attempts, SpecificMessage(a) PROVE ManagerTypeOK'
  <2>1. a \in Started
    BY <1>15 DEF SpecificMessage, BookInv, Untouched
  <2> QED
    BY <1>0, <1>15, <2>1 DEF ManagerTypeOK, SpecificMessage
<1>16. ASSUME NEW a \in Attempts, ReportTimer(a) PROVE ManagerTypeOK'
  BY <1>16 DEF ManagerTypeOK, ReportTimer
<1> QED
  BY <1>1, <1>2, <1>3, <1>4, <1>5, <1>6, <1>7, <1>8, <1>9, <1>11, <1>12, <1>13,
     <1>14, <1>15, <1>16 DEF Next, ChildStep, GuiSlot

\* onClientVPNStatusChanged() changes no entry but that of its name, and
\* leaves that or removes it.
LEMMA StatusFacts ==
  ASSUME ManagerTypeOK, BookInv, NEW n \in Names, NEW m \in Statuses,
         StatusChanged(n, m)
  PROVE  /\ \A k \in Names : k # n => connections'[k] = connections[k]
         /\ connections'[n] = IF m = "DISCONNECTED" THEN 0 ELSE connections[n]
         /\ reports' = IF m = "DISCONNECTED" /\ connections[n] # 0
                          /\ connections[n] \notin ever
                       THEN reports \union {connections[n]} ELSE reports
         /\ ever' = IF m = "CONNECTED" /\ connections[n] # 0
                    THEN ever \union {connections[n]} ELSE ever
         /\ row' = [row EXCEPT ![n] = m]
         /\ tray' = SomeClientConnected'
BY DEF StatusChanged, ShowStatus, ManagerTypeOK

\* The handlers of QProcess remove the entry of their name.
LEMMA HandlerFacts ==
  ASSUME ManagerTypeOK, BookInv, NEW a \in Started, NEW reporting \in BOOLEAN,
         ProcessHandler(a, reporting)
  PROVE  /\ \A k \in Names : k # NameOf(a) => connections'[k] = connections[k]
         /\ connections'[NameOf(a)] = 0
         /\ reports' = IF connections[NameOf(a)] # 0 /\ reporting
                       THEN reports \union {connections[NameOf(a)]} ELSE reports
         /\ UNCHANGED <<child, result, link, output, wired, socketOf, started,
                        status, row, tray>>
<1>1. NameOf(a) \in Names
  BY StartedFacts
<1> QED
  BY <1>1 DEF ProcessHandler, ManagerTypeOK, childVars, socketVars, dialogVars,
     windowVars, managerVars

\* Every slot keeps the books.
LEMMA BookStep ==
  ASSUME ManagerTypeOK, BookInv, DueInv, [Next]_vars
  PROVE  BookInv'
<1> USE DEF childVars, socketVars, dialogVars, windowVars, managerVars
<1>0. /\ Started \subseteq Attempts
      /\ Attempts \subseteq Nat \ {0}
      /\ \A a \in Started : NameOf(a) \in Names
  BY StartedFacts
<1>1. CASE UNCHANGED vars
  BY <1>1 DEF BookInv, vars, Untouched, Started, NameOf
<1>2. ASSUME NEW n \in Names, StartVPN(n) PROVE BookInv'
  <2> DEFINE b == Len(started) + 1
  <2>1. /\ b \in Attempts \ Started
        /\ Started' = Started \union {b}
        /\ started'[b] = n
        /\ \A a \in Started : started'[a] = started[a]
    BY <1>2, StartGrows
  <2>2. /\ connections' = [connections EXCEPT ![n] = b]
        /\ \A a \in Attempts \ {b} :
             /\ child'[a] = child[a] /\ due'[a] = due[a] /\ result'[a] = result[a]
        /\ UNCHANGED <<link, output, wired, socketOf, reports>>
    BY <1>2, <2>1 DEF StartVPN, ManagerTypeOK
  <2> HIDE DEF b
  <2>3. \A k \in Names : connections'[k] # 0 =>
          connections'[k] \in Started' /\ started'[connections'[k]] = k
    BY <2>1, <2>2 DEF BookInv, ManagerTypeOK, NameOf
  <2>4. \A a \in Attempts \ Started' : Untouched(a)'
    BY <2>1, <2>2 DEF BookInv, Untouched
  <2> QED
    BY <2>1, <2>2, <2>3, <2>4 DEF BookInv, ManagerTypeOK, NameOf, Untouched
<1>3. ASSUME NEW n \in Names, StopVPN(n) PROVE BookInv'
  BY <1>3 DEF BookInv, StopVPN, ManagerTypeOK, Untouched, Started, NameOf
<1>4. CASE RefreshList
  BY <1>4 DEF BookInv, RefreshList, Untouched, Started, NameOf
<1>5. ASSUME NEW a \in Attempts, ChildConnects(a) PROVE BookInv'
  BY <1>5 DEF BookInv, ChildConnects, ManagerTypeOK, Untouched, Started, NameOf
<1>6. ASSUME NEW a \in Attempts, ChildReports(a) PROVE BookInv'
  BY <1>6 DEF BookInv, ChildReports, Untouched, Started, NameOf
<1>7. ASSUME NEW a \in Attempts, ChildPrints(a) PROVE BookInv'
  BY <1>7 DEF BookInv, ChildPrints, Live, ManagerTypeOK, Untouched, Started, NameOf
<1>8. ASSUME NEW a \in Attempts, NEW r \in {"ok", "failed", "crash"}, ChildEnds(a, r)
      PROVE BookInv'
  BY <1>8 DEF BookInv, ChildEnds, Live, ManagerTypeOK, Untouched, Started, NameOf
<1>9. ASSUME NEW c \in Attempts, Accept(c) PROVE BookInv'
  <2>1. c \in Started /\ wired[c] = 0 /\ link[c] = "pending" /\ NameOf(c) \in Names
    BY <1>0, <1>9 DEF Accept, BookInv, Untouched
  <2>2. UNCHANGED <<started, connections, reports, child, due, output, result>>
    BY <1>9 DEF Accept
  <2>3. CASE connections[NameOf(c)] # 0
    <3> DEFINE entry == connections[NameOf(c)]
    <3>1. entry \in Started /\ entry # 0
      BY <2>1, <2>3 DEF BookInv
    <3>2. /\ socketOf' = [socketOf EXCEPT ![entry] = c]
          /\ wired' = [wired EXCEPT ![c] = entry]
          /\ link' = [link EXCEPT ![c] = "open"]
      BY <1>9, <2>3 DEF Accept
    <3> HIDE DEF entry
    <3> QED
      BY <1>0, <2>1, <2>2, <3>1, <3>2 DEF BookInv, ManagerTypeOK, Untouched, Started, NameOf
  <2>4. CASE connections[NameOf(c)] = 0
    BY <1>9, <2>1, <2>4 DEF Accept, BookInv, ManagerTypeOK, Untouched, Started, NameOf
  <2> QED
    BY <2>3, <2>4
<1>10. ASSUME NEW n \in Names, NEW m \in Statuses, StatusChanged(n, m),
              UNCHANGED <<started, child, due, output, result, wired, socketOf>>,
              \A c \in Attempts : \/ link'[c] = link[c]
                                  \/ link'[c] = "closed" /\ wired[c] # 0
       PROVE  BookInv'
  <2>1. /\ \A k \in Names : connections'[k] \in {0, connections[k]}
        /\ reports' \subseteq reports \union ({connections[n]} \ {0})
    BY <1>10, StatusFacts
  <2>2. \A c \in Attempts : /\ link'[c] = "open" => link[c] = "open"
                            /\ link[c] = "none" => link'[c] = "none"
                            /\ link'[c] \in {"none", "pending"} => link'[c] = link[c]
    BY <1>10 DEF BookInv
  <2>3. reports' \subseteq Started
    BY <1>10, <2>1 DEF BookInv, ManagerTypeOK
  <2> QED
    BY <1>10, <2>1, <2>2, <2>3 DEF BookInv, ManagerTypeOK, Untouched, Started, NameOf
<1>11. ASSUME NEW c \in Attempts, ReadyRead(c) PROVE BookInv'
  <2> DEFINE a == wired[c]
             s == socketOf[a]
  <2>0. a \in Started /\ s \in Attempts
    BY <1>11 DEF ReadyRead, BookInv, ManagerTypeOK
  <2>1. a \in Started /\ s \in Attempts /\ NameOf(a) \in Names
    BY <1>0, <2>0
  <2>2. CASE UNCHANGED <<connections, reports>>
    BY <1>11, <2>2 DEF ReadyRead, BookInv, Untouched, Started, NameOf
  <2>3. CASE outbox[s] # <<>> /\ StatusChanged(NameOf(a), Head(outbox[s]))
    <3>1. Head(outbox[s]) \in Statuses
      BY <2>1, <2>3, OutboxFacts DEF ManagerTypeOK
    <3>2. UNCHANGED <<started, child, due, output, result, wired, socketOf, link>>
      BY <1>11 DEF ReadyRead
    <3> QED
      BY <1>10, <2>1, <2>3, <3>1, <3>2
  <2> QED
    BY <1>11, <2>2, <2>3 DEF ReadyRead
<1>12. ASSUME NEW c \in Attempts, Disconnected(c) PROVE BookInv'
  <2> DEFINE a == wired[c]
             s == socketOf[a]
  <2>0. a \in Started /\ s \in Attempts /\ wired[s] = a /\ a # 0
    BY <1>12 DEF Disconnected, BookInv, ManagerTypeOK
  <2>1. a \in Started /\ s \in Attempts /\ NameOf(a) \in Names /\ wired[s] = a /\ a # 0
    BY <1>0, <2>0
  <2>2. /\ UNCHANGED <<started, child, due, output, result, wired, socketOf>>
        /\ link' = [link EXCEPT ![c] = "closed", ![s] = "closed"]
        /\ StatusChanged(NameOf(a), "DISCONNECTED")
    BY <1>12 DEF Disconnected
  <2>3. \A d \in Attempts : \/ link'[d] = link[d]
                            \/ link'[d] = "closed" /\ wired[d] # 0
    BY <2>1, <2>2 DEF ManagerTypeOK
  <2>4. "DISCONNECTED" \in Statuses
    BY DEF Statuses
  <2> QED
    BY <1>10, <2>1, <2>2, <2>3, <2>4
<1>13. ASSUME NEW a \in Started, NEW reporting \in BOOLEAN, ProcessHandler(a, reporting),
              due[a] # "none", NEW d \in {"finished", "done"},
              due' = [due EXCEPT ![a] = d]
       PROVE  BookInv'
  <2>1. /\ \A k \in Names : connections'[k] \in {0, connections[k]}
        /\ reports' \subseteq reports \union ({connections[NameOf(a)]} \ {0})
        /\ UNCHANGED <<child, result, link, output, wired, socketOf, started>>
    BY <1>13, HandlerFacts
  <2> QED
    BY <1>0, <1>13, <2>1 DEF BookInv, ManagerTypeOK, Untouched, Started, NameOf
<1>14. ASSUME NEW a \in Attempts, ProcessFinished(a) PROVE BookInv'
  <2>1. a \in Started
    BY <1>14 DEF ProcessFinished, BookInv, Untouched
  <2> QED
    BY <1>13, <1>14, <2>1 DEF ProcessFinished
<1>15. ASSUME NEW a \in Attempts, ProcessError(a) PROVE BookInv'
  <2>1. a \in Started
    BY <1>15 DEF ProcessError, BookInv, Untouched
  <2> QED
    BY <1>13, <1>15, <2>1 DEF ProcessError
<1>16. ASSUME NEW a \in Attempts, SpecificMessage(a) PROVE BookInv'
  BY <1>16 DEF BookInv, SpecificMessage, ManagerTypeOK, Untouched, Started, NameOf
<1>17. ASSUME NEW a \in Attempts, ReportTimer(a) PROVE BookInv'
  BY <1>17 DEF BookInv, ReportTimer, Untouched, Started, NameOf
<1> QED
  BY <1>1, <1>2, <1>3, <1>4, <1>5, <1>6, <1>7, <1>8, <1>9, <1>11, <1>12, <1>14,
     <1>15, <1>16, <1>17 DEF Next, ChildStep, GuiSlot

\* What is left of an entry when everybody but startVPN() has had its turn.
LEMMA EntriesOnlyGo ==
  ASSUME ManagerTypeOK, BookInv, [Next]_vars,
         \A n \in Names : ~StartVPN(n)
  PROVE  /\ started' = started
         /\ \A n \in Names : connections'[n] \in {0, connections[n]}
<1> USE DEF childVars, socketVars, dialogVars, windowVars, managerVars
<1>0. /\ Started \subseteq Attempts
      /\ \A a \in Started : NameOf(a) \in Names
  BY StartedFacts
<1> DEFINE Goal == /\ started' = started
                   /\ \A n \in Names : connections'[n] \in {0, connections[n]}
<1>1. CASE UNCHANGED <<started, connections>>
  BY <1>1
<1>2. ASSUME NEW n \in Names, StopVPN(n) PROVE Goal
  BY <1>2 DEF StopVPN, ManagerTypeOK
<1>3. ASSUME NEW c \in Attempts, ReadyRead(c) PROVE Goal
  <2>1. wired[c] \in Started /\ socketOf[wired[c]] \in Attempts
    BY <1>3 DEF ReadyRead, BookInv, ManagerTypeOK
  <2>2. CASE connections' = connections
    BY <1>3, <2>2 DEF ReadyRead
  <2>3. CASE /\ outbox[socketOf[wired[c]]] # <<>>
             /\ StatusChanged(NameOf(wired[c]), Head(outbox[socketOf[wired[c]]]))
    <3>1. Head(outbox[socketOf[wired[c]]]) \in Statuses
      BY <2>1, <2>3, OutboxFacts DEF ManagerTypeOK
    <3>2. NameOf(wired[c]) \in Names
      BY <1>0, <2>1
    <3>3. \A n \in Names : connections'[n] \in {0, connections[n]}
      BY <2>3, <3>1, <3>2, StatusFacts
    <3> QED
      BY <1>3, <3>3 DEF ReadyRead
  <2> QED
    BY <1>3, <2>2, <2>3 DEF ReadyRead
<1>4. ASSUME NEW c \in Attempts, Disconnected(c) PROVE Goal
  <2>1. wired[c] \in Started /\ "DISCONNECTED" \in Statuses
    BY <1>4 DEF Disconnected, BookInv, ManagerTypeOK, Statuses
  <2>2. NameOf(wired[c]) \in Names
    BY <1>0, <2>1
  <2>3. \A n \in Names : connections'[n] \in {0, connections[n]}
    BY <1>4, <2>1, <2>2, StatusFacts DEF Disconnected
  <2> QED
    BY <1>4, <2>3 DEF Disconnected
<1>5. ASSUME NEW a \in Attempts, NEW reporting \in BOOLEAN, ProcessHandler(a, reporting),
             due[a] # "none"
      PROVE  Goal
  <2>1. a \in Started
    BY <1>5 DEF BookInv, Untouched
  <2>2. \A n \in Names : connections'[n] \in {0, connections[n]}
    BY <1>5, <2>1, HandlerFacts
  <2> QED
    BY <1>5, <2>2 DEF ProcessHandler
<1>6. ASSUME NEW a \in Attempts, ProcessFinished(a) \/ ProcessError(a) PROVE Goal
  BY <1>5, <1>6 DEF ProcessFinished, ProcessError
<1>7. \A a \in Attempts : ChildStep(a) \/ Accept(a) \/ SpecificMessage(a) \/ ReportTimer(a) =>
        UNCHANGED <<started, connections>>
  BY DEF ChildStep, ChildConnects, ChildReports, ChildPrints, ChildEnds, Accept,
     SpecificMessage, ReportTimer
<1>8. RefreshList \/ UNCHANGED vars => UNCHANGED <<started, connections>>
  BY DEF RefreshList, vars
<1> QED
  BY <1>1, <1>2, <1>3, <1>4, <1>6, <1>7, <1>8 DEF Next, GuiSlot

\* An end is signalled, and the last signal finds no entry any more.
LEMMA DueStep ==
  ASSUME ManagerTypeOK, BookInv, DueInv, [Next]_vars
  PROVE  DueInv'
<1> USE DEF childVars, socketVars, dialogVars, windowVars, managerVars
<1>0. /\ Started \subseteq Attempts
      /\ Attempts \subseteq Nat \ {0}
      /\ \A a \in Started : NameOf(a) \in Names
  BY StartedFacts
<1>1. ASSUME NEW n \in Names, StartVPN(n) PROVE DueInv'
  <2> DEFINE b == Len(started) + 1
  <2>1. /\ b \in Attempts \ Started
        /\ Started' = Started \union {b}
        /\ started'[b] = n
        /\ \A a \in Started : started'[a] = started[a]
    BY <1>1, StartGrows
  <2>2. /\ connections' = [connections EXCEPT ![n] = b]
        /\ \/ child' = [child EXCEPT ![b] = "boot"] /\ due' = due
           \/ /\ child' = [child EXCEPT ![b] = "ended"]
              /\ due' = [due EXCEPT ![b] = "error"]
    BY <1>1 DEF StartVPN
  <2> HIDE DEF b
  <2>3. due[b] = "none" /\ due'[b] # "done"
    BY <2>1, <2>2 DEF BookInv, Untouched, ManagerTypeOK
  <2>4. \A a \in Started' : due'[a] = "done" => connections'[started'[a]] # a
    <3> SUFFICES ASSUME NEW a \in Started', due'[a] = "done"
                 PROVE  connections'[started'[a]] # a
      OBVIOUS
    <3>1. a \in Started /\ a # b /\ started'[a] = started[a] /\ started[a] \in Names
      BY <1>0, <2>1, <2>3 DEF NameOf
    <3>2. due[a] = "done"
      BY <1>0, <2>2, <3>1 DEF ManagerTypeOK
    <3>3. connections[started[a]] # a
      BY <3>1, <3>2 DEF DueInv, NameOf
    <3>4. connections'[started[a]] \in {b, connections[started[a]]}
      BY <2>2, <3>1 DEF ManagerTypeOK
    <3> QED
      BY <3>1, <3>3, <3>4
  <2>5. \A a \in Attempts : child'[a] = "ended" <=> due'[a] # "none"
    <3>1. /\ \A a \in Attempts \ {b} : child'[a] = child[a] /\ due'[a] = due[a]
          /\ child'[b] = "ended" <=> due'[b] # "none"
      BY <2>1, <2>2, <2>3 DEF ManagerTypeOK
    <3> QED
      BY <3>1 DEF DueInv
  <2> QED
    BY <2>4, <2>5 DEF DueInv, NameOf
<1>2. ASSUME started' = started,
             \A n \in Names : connections'[n] \in {0, connections[n]},
             \A a \in Attempts : child'[a] = "ended" <=> due'[a] # "none",
             \A a \in Started : due'[a] = "done" =>
               due[a] = "done" \/ connections'[NameOf(a)] = 0
      PROVE  DueInv'
  BY <1>0, <1>2 DEF DueInv, Started, NameOf
<1>3. ASSUME \A n \in Names : ~StartVPN(n) PROVE DueInv'
  <2>0. /\ started' = started
        /\ \A n \in Names : connections'[n] \in {0, connections[n]}
    BY <1>3, EntriesOnlyGo
  <2>1. CASE UNCHANGED <<child, due>>
    BY <1>2, <2>0, <2>1 DEF DueInv
  <2>2. ASSUME NEW a \in Attempts, ChildConnects(a) PROVE DueInv'
    BY <1>2, <2>0, <2>2 DEF DueInv, ChildConnects, ManagerTypeOK
  <2>3. ASSUME NEW a \in Attempts, NEW r \in {"ok", "failed", "crash"}, ChildEnds(a, r)
        PROVE  DueInv'
    BY <1>2, <2>0, <2>3 DEF DueInv, ChildEnds, Live, ManagerTypeOK
  <2>4. ASSUME NEW a \in Attempts, ProcessFinished(a) \/ ProcessError(a) PROVE DueInv'
    <3>1. a \in Started
      BY <2>4 DEF ProcessFinished, ProcessError, BookInv, Untouched
    <3>2. connections'[NameOf(a)] = 0 /\ child' = child
      BY <2>4, <3>1, HandlerFacts DEF ProcessFinished, ProcessError
    <3>3. /\ due[a] # "none" /\ due'[a] # "none"
          /\ \A b \in Attempts \ {a} : due'[b] = due[b]
      BY <2>4 DEF ProcessFinished, ProcessError, ManagerTypeOK
    <3>4. \A b \in Attempts : child'[b] = "ended" <=> due'[b] # "none"
      BY <3>2, <3>3 DEF DueInv
    <3>5. \A b \in Started : due'[b] = "done" =>
            due[b] = "done" \/ connections'[NameOf(b)] = 0
      BY <1>0, <3>2, <3>3
    <3> QED
      BY <1>2, <2>0, <3>4, <3>5
  <2>5. \A a \in Attempts :
          \/ Accept(a) \/ ReadyRead(a) \/ Disconnected(a) \/ SpecificMessage(a)
          \/ ReportTimer(a) \/ ChildPrints(a) \/ ChildReports(a)
          => UNCHANGED <<child, due>>
    BY DEF Accept, ReadyRead, Disconnected, SpecificMessage, ReportTimer,
       ChildPrints, ChildReports
  <2>6. RefreshList \/ UNCHANGED vars \/ (\E n \in Names : StopVPN(n))
        => UNCHANGED <<child, due>>
    BY DEF RefreshList, vars, StopVPN
  <2> QED
    BY <1>3, <2>1, <2>2, <2>3, <2>4, <2>5, <2>6 DEF Next, ChildStep, GuiSlot
<1> QED
  BY <1>1, <1>3

\* A status that is not "Disconnected" needs an open socket: what closes the
\* socket resets it, in the connection and in the window.
LEMMA WindowStep ==
  ASSUME ManagerTypeOK, BookInv, WindowInv, [Next]_vars
  PROVE  WindowInv'
<1> USE DEF childVars, socketVars, dialogVars, windowVars, managerVars
<1>0. /\ Started \subseteq Attempts
      /\ Attempts \subseteq Nat \ {0}
      /\ \A a \in Started : NameOf(a) \in Names
      /\ \A c \in Attempts : link[c] = "open" => wired[c] \in Started
  BY StartedFacts DEF BookInv
<1>1. ASSUME UNCHANGED <<status, row, tray>>,
             \A a \in Started : started'[a] = started[a],
             \A c \in Attempts : link[c] = "open" => link'[c] = "open" /\ wired'[c] = wired[c]
      PROVE  WindowInv'
  <2>1. \A a \in Attempts : status'[a] # "DISCONNECTED" =>
          \E c \in Attempts : link'[c] = "open" /\ wired'[c] = a
    BY <1>1 DEF WindowInv
  <2>2. \A n \in Names : row'[n] # "DISCONNECTED" =>
          \E c \in Attempts : link'[c] = "open" /\ started'[wired'[c]] = n
    <3> SUFFICES ASSUME NEW n \in Names, row'[n] # "DISCONNECTED"
                 PROVE  \E c \in Attempts : link'[c] = "open" /\ started'[wired'[c]] = n
      OBVIOUS
    <3>1. PICK c \in Attempts : link[c] = "open" /\ started[wired[c]] = n
      BY <1>1 DEF WindowInv, NameOf
    <3> QED
      BY <1>0, <1>1, <3>1
  <2> QED
    BY <1>1, <2>1, <2>2 DEF WindowInv, NameOf
<1>2. ASSUME NEW n \in Names, StartVPN(n) PROVE WindowInv'
  <2>1. \A a \in Started : started'[a] = started[a]
    BY <1>2, StartGrows
  <2> QED
    BY <1>1, <1>2, <2>1 DEF StartVPN
<1>3. ASSUME NEW c \in Attempts, Accept(c) PROVE WindowInv'
  <2>1. \A d \in Attempts : link[d] = "open" => link'[d] = "open" /\ wired'[d] = wired[d]
    BY <1>3 DEF Accept, ManagerTypeOK
  <2> QED
    BY <1>1, <1>3, <2>1 DEF Accept
<1>4. ASSUME NEW a \in Attempts, ChildConnects(a) PROVE WindowInv'
  <2>1. \A d \in Attempts : link[d] = "open" => link'[d] = "open" /\ wired'[d] = wired[d]
    BY <1>4 DEF ChildConnects, ManagerTypeOK, BookInv
  <2> QED
    BY <1>1, <1>4, <2>1 DEF ChildConnects
<1>5. CASE UNCHANGED <<status, row, tray, started, link, wired>>
  BY <1>1, <1>5
<1>6. CASE RefreshList
  <2>1. /\ row' = [n \in Names |-> IF connections[n] = 0 THEN "DISCONNECTED"
                                   ELSE status[connections[n]]]
        /\ tray' = SomeClientConnected
        /\ UNCHANGED <<status, started, link, wired>>
    BY <1>6 DEF RefreshList
  <2>2. \A n \in Names : row'[n] # "DISCONNECTED" =>
          \E c \in Attempts : link[c] = "open" /\ NameOf(wired[c]) = n
    <3> SUFFICES ASSUME NEW n \in Names, row'[n] # "DISCONNECTED"
                 PROVE  \E c \in Attempts : link[c] = "open" /\ NameOf(wired[c]) = n
      OBVIOUS
    <3>1. connections[n] # 0 /\ status[connections[n]] # "DISCONNECTED"
      BY <2>1
    <3>2. connections[n] \in Attempts /\ NameOf(connections[n]) = n
      BY <1>0, <3>1 DEF BookInv
    <3> QED
      BY <3>1, <3>2 DEF WindowInv
  <2>3. tray' => \E a \in Attempts : status[a] = "CONNECTED"
    BY <2>1 DEF SomeClientConnected, ManagerTypeOK
  <2> QED
    BY <2>1, <2>2, <2>3 DEF WindowInv, NameOf
<1>7. ASSUME NEW a \in Started, NEW m \in Statuses,
             StatusChanged(NameOf(a), m),
             status' = [status EXCEPT ![a] = m],
             UNCHANGED <<started, wired>>,
             \A c \in Attempts : link[c] = "open" /\ (wired[c] # a \/ m # "DISCONNECTED")
               => link'[c] = "open",
             \E c \in Attempts : wired[c] = a /\ link[c] = "open"
      PROVE  WindowInv'
  <2>1. /\ NameOf(a) \in Names
        /\ row' = [row EXCEPT ![NameOf(a)] = m]
        /\ tray' = SomeClientConnected'
    BY <1>0, <1>7, StatusFacts
  <2>2. ASSUME NEW b \in Attempts, status'[b] # "DISCONNECTED"
        PROVE  \E c \in Attempts : link'[c] = "open" /\ wired[c] = b
    <3>1. CASE b = a
      <4>1. m # "DISCONNECTED"
        BY <1>7, <2>2, <3>1 DEF ManagerTypeOK
      <4> QED
        BY <1>7, <3>1, <4>1
    <3>2. CASE b # a
      <4>1. PICK c \in Attempts : link[c] = "open" /\ wired[c] = b
        BY <1>7, <2>2, <3>2 DEF WindowInv, ManagerTypeOK
      <4> QED
        BY <1>7, <3>2, <4>1
    <3> QED
      BY <3>1, <3>2
  <2>3. ASSUME NEW n \in Names, row'[n] # "DISCONNECTED"
        PROVE  \E c \in Attempts : link'[c] = "open" /\ NameOf(wired[c]) = n
    <3>1. CASE n = NameOf(a)
      <4>1. m # "DISCONNECTED"
        BY <2>1, <2>3, <3>1 DEF ManagerTypeOK
      <4> QED
        BY <1>7, <3>1, <4>1
    <3>2. CASE n # NameOf(a)
      <4>1. PICK c \in Attempts : link[c] = "open" /\ NameOf(wired[c]) = n
        BY <2>1, <2>3, <3>2 DEF WindowInv, ManagerTypeOK
      <4>2. wired[c] # a
        BY <3>2, <4>1
      <4> QED
        BY <1>7, <4>1, <4>2
    <3> QED
      BY <3>1, <3>2
  <2>4. tray' => \E b \in Attempts : status'[b] = "CONNECTED"
    <3>1. connections' \in [Names -> Attempts \union {0}]
      BY TypeStep DEF ManagerTypeOK
    <3> QED
      BY <2>1, <3>1 DEF SomeClientConnected
  <2> QED
    BY <1>7, <2>2, <2>3, <2>4 DEF WindowInv, NameOf
<1>8. ASSUME NEW c \in Attempts, ReadyRead(c) PROVE WindowInv'
  <2> DEFINE a == wired[c]
             s == socketOf[a]
  <2>1. a \in Started /\ s \in Attempts /\ link[c] = "open"
    BY <1>8 DEF ReadyRead, BookInv, ManagerTypeOK
  <2>2. UNCHANGED <<started, wired, link>>
    BY <1>8 DEF ReadyRead
  <2>3. CASE UNCHANGED <<status, row, tray>>
    BY <1>5, <2>2, <2>3
  <2>4. CASE /\ outbox[s] # <<>>
             /\ status' = [status EXCEPT ![a] = Head(outbox[s])]
             /\ StatusChanged(NameOf(a), Head(outbox[s]))
    <3>1. Head(outbox[s]) \in Statuses
      BY <2>1, <2>4, OutboxFacts DEF ManagerTypeOK
    <3> QED
      BY <1>7, <2>1, <2>2, <2>4, <3>1
  <2> QED
    BY <1>8, <2>3, <2>4 DEF ReadyRead
<1>9. ASSUME NEW c \in Attempts, Disconnected(c) PROVE WindowInv'
  <2> DEFINE a == wired[c]
             s == socketOf[a]
  <2>1. a \in Started /\ s \in Attempts /\ link[c] = "open" /\ wired[s] = a
    BY <1>9 DEF Disconnected, BookInv, ManagerTypeOK
  <2>2. /\ UNCHANGED <<started, wired>>
        /\ status' = [status EXCEPT ![a] = "DISCONNECTED"]
        /\ StatusChanged(NameOf(a), "DISCONNECTED")
        /\ link' = [link EXCEPT ![c] = "closed", ![s] = "closed"]
    BY <1>9 DEF Disconnected
  <2>3. \A d \in Attempts : link[d] = "open" /\ wired[d] # a => link'[d] = "open"
    BY <2>1, <2>2 DEF ManagerTypeOK
  <2>4. "DISCONNECTED" \in Statuses
    BY DEF Statuses
  <2> QED
    BY <1>7, <2>1, <2>2, <2>3, <2>4
<1>10. ASSUME NEW a \in Attempts, ProcessFinished(a) \/ ProcessError(a) PROVE WindowInv'
  <2>1. a \in Started
    BY <1>10 DEF ProcessFinished, ProcessError, BookInv, Untouched
  <2> QED
    BY <1>5, <1>10, <2>1, HandlerFacts DEF ProcessFinished, ProcessError
<1>11. \A a \in Attempts :
         \/ ChildReports(a) \/ ChildPrints(a) \/ (\E r \in {"ok", "failed", "crash"} : ChildEnds(a, r))
         \/ SpecificMessage(a) \/ ReportTimer(a)
         => UNCHANGED <<status, row, tray, started, link, wired>>
  BY DEF ChildReports, ChildPrints, ChildEnds, SpecificMessage, ReportTimer
<1>12. UNCHANGED vars \/ (\E n \in Names : StopVPN(n))
       => UNCHANGED <<status, row, tray, started, link, wired>>
  BY DEF vars, StopVPN
<1> QED
  BY <1>2, <1>3, <1>4, <1>5, <1>6, <1>8, <1>9, <1>10, <1>11, <1>12
  DEF Next, ChildStep, GuiSlot

\* The books are kept from the start.
LEMMA ManagerStarts == ManagerInit => ManagerInv
<1> SUFFICES ASSUME ManagerInit PROVE ManagerInv
  OBVIOUS
<1>1. Len(<<>>) = 0 /\ <<>> \in Seq(Names) /\ <<>> \in Seq(Statuses) /\ DOMAIN <<>> = {}
  OBVIOUS
<1>2. ManagerTypeOK
  <2>1. "DISCONNECTED" \in Statuses
    BY DEF Statuses
  <2>2. started \in Seq(Names) /\ Len(started) <= MaxAttempts
    BY <1>1, ManagerAssumption DEF ManagerInit
  <2>3. outbox \in [Attempts -> Seq(Statuses)]
    BY <1>1 DEF ManagerInit
  <2> QED
    BY <2>1, <2>2, <2>3 DEF ManagerInit, ManagerTypeOK
<1>3. Started = {}
  BY <1>1 DEF ManagerInit, Started
<1> QED
  BY <1>2, <1>3 DEF ManagerInv, ManagerInit, BookInv, DueInv, WindowInv, Untouched

\* The invariant of the manager, for any overlap.
THEOREM ManagerInvariant == Spec => []ManagerInv
<1>1. ManagerInit => ManagerInv
  BY ManagerStarts
<1>2. ManagerInv /\ [Next]_vars => ManagerInv'
  BY TypeStep, BookStep, DueStep, WindowStep DEF ManagerInv
<1> QED
  BY <1>1, <1>2, PTL DEF Spec

\* The state of the manager and its processes has its types.
THEOREM ManagerTyped == Spec => []ManagerTypeOK
BY ManagerInvariant, PTL DEF ManagerInv

\* The entry of a process that has ended leaves the map, whatever other
\* attempts of its name have done to it.
THEOREM DeadLeaves == Spec => []DeadLeavesMap
<1>1. ManagerInv => DeadLeavesMap
  BY DEF ManagerInv, DueInv, DeadLeavesMap, Settled
<1> QED
  BY <1>1, ManagerInvariant, PTL

\* Rows and tray icon are at rest when the last process has gone.
THEOREM WindowComesToRest == Spec => []QuietWindow
<1>1. ManagerInv => QuietWindow
  <2> SUFFICES ASSUME ManagerInv, \A a \in Started : Settled(a)
               PROVE  ~tray /\ \A n \in Names : row[n] = "DISCONNECTED"
    BY DEF QuietWindow
  <2>1. \A c \in Attempts : link[c] # "open"
    BY DEF ManagerInv, BookInv, Untouched, Settled
  <2> QED
    BY <2>1 DEF ManagerInv, WindowInv
<1> QED
  BY <1>1, ManagerInvariant, PTL

-----------------------------------------------------------------------------
(* Without overlap.                                                        *)

\* An attempt that is not settled is the only one its name can be about.
LEMMA OwnEntry ==
  ASSUME ManagerInv, AloneInv, NEW c \in Started, ~Settled(c)
  PROVE  /\ NameOf(c) \in Names
         /\ connections[NameOf(c)] \in {0, c}
<1> DEFINE e == connections[NameOf(c)]
<1>1. NameOf(c) \in Names /\ Started \subseteq Nat
  BY StartedFacts DEF ManagerInv
<1>2. SUFFICES ASSUME e # 0, e # c PROVE FALSE
  BY <1>1
<1>3. e \in Started /\ NameOf(e) = NameOf(c)
  BY <1>1, <1>2 DEF ManagerInv, BookInv
<1>4. CASE e < c
  <2>1. due[e] = "done"
    BY <1>3, <1>4 DEF AloneInv, Settled
  <2> QED
    BY <1>3, <2>1 DEF ManagerInv, DueInv
<1>5. CASE c < e
  BY <1>3, <1>5 DEF AloneInv
<1>6. e \in Nat /\ c \in Nat
  BY <1>1, <1>3
<1> HIDE DEF e
<1> QED
  BY <1>2, <1>4, <1>5, <1>6

\* So an open socket is read by the connection of its own attempt.
LEMMA OwnSocket ==
  ASSUME ManagerInv, AloneInv, NEW c \in Attempts, link[c] = "open"
  PROVE  /\ c \in Started
         /\ wired[c] = c
         /\ socketOf[c] = c
         /\ NameOf(c) \in Names
         /\ connections[NameOf(c)] \in {0, c}
<1>1. c \in Started /\ wired[c] = c /\ socketOf[c] \in Attempts
  BY DEF ManagerInv, BookInv, ManagerTypeOK, Untouched, AloneInv
<1>2. socketOf[c] = c
  <2>1. socketOf[c] # 0 /\ wired[socketOf[c]] = c
    BY <1>1, StartedFacts DEF ManagerInv, BookInv
  <2> QED
    BY <1>1, <2>1, StartedFacts DEF AloneInv, ManagerInv
<1> QED
  BY <1>1, <1>2, OwnEntry DEF Settled

\* Nothing happens to a settled attempt any more.
LEMMA SettledStays ==
  ASSUME ManagerInv, [Next]_vars, NEW a \in Started, Settled(a)
  PROVE  Settled(a)'
<1> USE DEF childVars, socketVars, dialogVars, windowVars, managerVars, Settled, Live
<1>0. a \in Attempts /\ ManagerTypeOK
  BY StartedFacts DEF ManagerInv
<1>1. CASE UNCHANGED <<child, due, link, output>>
  BY <1>1
<1>2. ASSUME NEW n \in Names, StartVPN(n) PROVE Settled(a)'
  <2>1. a # Len(started) + 1
    BY <1>2, StartGrows, <1>0
  <2> QED
    BY <1>0, <1>2, <2>1 DEF StartVPN, ManagerTypeOK
<1>3. ASSUME NEW b \in Attempts, ChildStep(b) PROVE Settled(a)'
  <2>1. b # a
    BY <1>3 DEF ChildStep, ChildConnects, ChildReports, ChildPrints, ChildEnds
  <2>2. CASE ChildConnects(b) \/ ChildReports(b)
    BY <1>0, <2>1, <2>2 DEF ChildConnects, ChildReports, ManagerTypeOK
  <2>3. CASE ChildPrints(b) \/ \E r \in {"ok", "failed", "crash"} : ChildEnds(b, r)
    BY <1>0, <2>1, <2>3 DEF ChildPrints, ChildEnds, ManagerTypeOK
  <2> QED
    BY <1>3, <2>2, <2>3 DEF ChildStep
<1>4. ASSUME NEW b \in Attempts, Accept(b) PROVE Settled(a)'
  BY <1>0, <1>4 DEF Accept, ManagerTypeOK
<1>5. ASSUME NEW b \in Attempts, Disconnected(b) PROVE Settled(a)'
  BY <1>0, <1>5 DEF Disconnected, ManagerTypeOK
<1>6. ASSUME NEW b \in Attempts, ProcessFinished(b) \/ ProcessError(b) PROVE Settled(a)'
  BY <1>0, <1>6 DEF ProcessFinished, ProcessError, ProcessHandler, ManagerTypeOK
<1>7. ASSUME NEW b \in Attempts, SpecificMessage(b) PROVE Settled(a)'
  BY <1>0, <1>7 DEF SpecificMessage, ManagerTypeOK
<1>8. \A b \in Attempts : ReadyRead(b) \/ ReportTimer(b) => UNCHANGED <<child, due, link, output>>
  BY DEF ReadyRead, ReportTimer
<1>9. UNCHANGED vars \/ RefreshList \/ (\E n \in Names : StopVPN(n))
      => UNCHANGED <<child, due, link, output>>
  BY DEF vars, RefreshList, StopVPN
<1> QED
  BY <1>1, <1>2, <1>3, <1>4, <1>5, <1>6, <1>7, <1>8, <1>9 DEF Next, GuiSlot

\* Nobody reads a deleted socket, and a socket goes to its own connection.
LEMMA AloneStep ==
  ASSUME ~Overlap, ManagerInv, AloneInv, [Next]_vars
  PROVE  AloneInv'
<1> USE DEF childVars, socketVars, dialogVars, windowVars, managerVars
<1>0. /\ ManagerTypeOK /\ BookInv
      /\ Started \subseteq Attempts
      /\ Attempts \subseteq Nat \ {0}
      /\ \A a \in Started : NameOf(a) \in Names
  BY StartedFacts DEF ManagerInv
<1>1. \A a, b \in Started' : a < b /\ started'[a] = started'[b] => Settled(a)'
  <2>1. CASE UNCHANGED started
    BY <2>1, SettledStays DEF AloneInv, Started, NameOf
  <2>2. ASSUME NEW n \in Names, StartVPN(n)
        PROVE  \A a, b \in Started' : a < b /\ started'[a] = started'[b] => Settled(a)'
    <3> DEFINE new == Len(started) + 1
    <3>1. /\ Started' = Started \union {new}
          /\ started'[new] = n
          /\ \A a \in Started : started'[a] = started[a] /\ a < new
          /\ new \in Attempts
      BY <1>0, <2>2, StartGrows
    <3>2. \A a \in Started : started[a] = n => Settled(a)
      BY <2>2 DEF StartVPN
    <3> HIDE DEF new
    <3> SUFFICES ASSUME NEW a \in Started', NEW b \in Started',
                        a < b, started'[a] = started'[b]
                 PROVE  Settled(a)'
      OBVIOUS
    <3>3. a \in Started
      BY <1>0, <3>1
    <3>4. Settled(a)
      BY <1>0, <3>1, <3>2, <3>3 DEF AloneInv, NameOf
    <3> QED
      BY <3>3, <3>4, SettledStays
  <2> QED
    BY <1>0, <2>1, <2>2, EntriesOnlyGo
<1>2. \A c \in Attempts : wired'[c] \in {0, c}
  <2>1. ASSUME NEW c \in Attempts, Accept(c) PROVE \A d \in Attempts : wired'[d] \in {0, d}
    <3>1. c \in Started /\ ~Settled(c)
      BY <1>0, <2>1 DEF Accept, BookInv, Untouched, Settled
    <3>2. connections[NameOf(c)] \in {0, c}
      BY <3>1, OwnEntry
    <3> QED
      BY <1>0, <2>1, <3>2 DEF Accept, AloneInv, ManagerTypeOK
  <2>2. CASE UNCHANGED wired
    BY <2>2 DEF AloneInv
  <2>3. \A a \in Attempts :
          \/ ChildStep(a) \/ ReadyRead(a) \/ Disconnected(a) \/ ProcessFinished(a)
          \/ ProcessError(a) \/ SpecificMessage(a) \/ ReportTimer(a)
          => UNCHANGED wired
    BY DEF ChildStep, ChildConnects, ChildReports, ChildPrints, ChildEnds, ReadyRead,
       Disconnected, ProcessFinished, ProcessError, ProcessHandler, SpecificMessage,
       ReportTimer
  <2>4. UNCHANGED vars \/ RefreshList \/ (\E n \in Names : StopVPN(n) \/ StartVPN(n))
        => UNCHANGED wired
    BY DEF vars, RefreshList, StopVPN, StartVPN
  <2> QED
    BY <2>1, <2>2, <2>3, <2>4 DEF Next, GuiSlot
<1>3. gui' = "up"
  <2>1. ASSUME NEW c \in Attempts, ReadyRead(c) \/ Disconnected(c) PROVE gui' = "up"
    <3>1. link[c] = "open"
      BY <2>1 DEF ReadyRead, Disconnected
    <3>2. wired[c] = c /\ socketOf[c] = c
      BY <3>1, OwnSocket
    <3> QED
      BY <2>1, <3>1, <3>2 DEF ReadyRead, Disconnected
  <2>2. CASE UNCHANGED gui
    BY <2>2 DEF AloneInv
  <2>3. \A a \in Attempts :
          \/ ChildStep(a) \/ Accept(a) \/ ProcessFinished(a)
          \/ ProcessError(a) \/ SpecificMessage(a) \/ ReportTimer(a)
          => UNCHANGED gui
    BY DEF ChildStep, ChildConnects, ChildReports, ChildPrints, ChildEnds, Accept,
       ProcessFinished, ProcessError, ProcessHandler, SpecificMessage, ReportTimer
  <2>4. UNCHANGED vars \/ RefreshList \/ (\E n \in Names : StopVPN(n) \/ StartVPN(n))
        => UNCHANGED gui
    BY DEF vars, RefreshList, StopVPN, StartVPN
  <2> QED
    BY <2>1, <2>2, <2>3, <2>4 DEF Next, GuiSlot
<1> QED
  BY <1>1, <1>2, <1>3 DEF AloneInv, NameOf

\* A child says nothing after "Disconnected", and its end has one result.
LEMMA ChildStepKeeps ==
  ASSUME ManagerInv, ChildInv, [Next]_vars
  PROVE  ChildInv'
<1> USE DEF childVars, socketVars, dialogVars, windowVars, managerVars
<1>0. /\ ManagerTypeOK /\ BookInv /\ DueInv
      /\ Started \subseteq Attempts
      /\ Attempts \subseteq Nat \ {0}
  BY StartedFacts DEF ManagerInv
<1>1. CASE UNCHANGED <<result, child, link, due, outbox, said>>
  BY <1>1 DEF ChildInv
<1>2. ASSUME NEW n \in Names, StartVPN(n) PROVE ChildInv'
  <2> DEFINE b == Len(started) + 1
  <2>1. b \in Attempts \ Started
    BY <1>0, <1>2, StartGrows
  <2>2. link[b] = "none" /\ due[b] = "none" /\ child[b] = "none" /\ result[b] = "none"
    BY <1>0, <2>1 DEF BookInv, Untouched
  <2>3. /\ \/ /\ child' = [child EXCEPT ![b] = "boot"]
              /\ UNCHANGED <<result, due>>
           \/ /\ child' = [child EXCEPT ![b] = "ended"]
              /\ result' = [result EXCEPT ![b] = "nostart"]
              /\ due' = [due EXCEPT ![b] = "error"]
        /\ UNCHANGED <<link, outbox, said>>
    BY <1>2 DEF StartVPN
  <2> HIDE DEF b
  <2>4. \A a \in Attempts \ {b} :
          child'[a] = child[a] /\ result'[a] = result[a] /\ due'[a] = due[a]
    BY <1>0, <2>1, <2>3 DEF ManagerTypeOK
  <2>5. /\ result'[b] = "none" <=> child'[b] # "ended"
        /\ due'[b] = "error" => result'[b] \in {"crash", "nostart"}
        /\ due'[b] # "finished"
    BY <1>0, <2>1, <2>2, <2>3 DEF ManagerTypeOK
  <2> QED
    BY <2>1, <2>2, <2>3, <2>4, <2>5 DEF ChildInv
<1>3. ASSUME NEW a \in Attempts, ChildConnects(a) PROVE ChildInv'
  <2>1. /\ \A b \in Attempts : child'[b] = "ended" <=> child[b] = "ended"
        /\ \A b \in Attempts : link'[b] = link[b] \/ (b = a /\ child[b] # "ended")
        /\ UNCHANGED <<result, due, outbox, said>>
    BY <1>0, <1>3 DEF ChildConnects, ManagerTypeOK
  <2> QED
    BY <2>1 DEF ChildInv
<1>4. ASSUME NEW a \in Attempts, ChildReports(a) PROVE ChildInv'
  <2>1. PICK m \in Statuses :
          /\ m \in Child(a)!NextStatus(said[a])
          /\ said' = [said EXCEPT ![a] = m]
          /\ outbox' = [outbox EXCEPT ![a] = Append(@, m)]
    BY <1>0, <1>4 DEF ChildReports, Child!NextStatus, ManagerTypeOK, Statuses
  <2>2. said[a] # "DISCONNECTED"
    BY <2>1 DEF Child!NextStatus
  <2>3. \A i \in 1 .. Len(Append(outbox[a], m)) :
          Append(outbox[a], m)[i] = "DISCONNECTED" => m = "DISCONNECTED"
    BY <1>0, <2>2, OutboxFacts DEF ChildInv, ManagerTypeOK
  <2>4. \A b \in Attempts : \A i \in 1 .. Len(outbox'[b]) :
          outbox'[b][i] = "DISCONNECTED" => said'[b] = "DISCONNECTED"
    BY <1>0, <2>1, <2>3 DEF ChildInv, ManagerTypeOK
  <2> QED
    BY <1>4, <2>4 DEF ChildInv, ChildReports
<1>5. ASSUME NEW a \in Attempts, NEW r \in {"ok", "failed", "crash"}, ChildEnds(a, r)
      PROVE  ChildInv'
  <2>1. /\ \A b \in Attempts \ {a} :
             child'[b] = child[b] /\ result'[b] = result[b] /\ due'[b] = due[b]
        /\ child'[a] = "ended" /\ result'[a] = r
        /\ due'[a] = IF r = "crash" THEN "error" ELSE "finished"
        /\ UNCHANGED <<link, outbox, said>>
    BY <1>0, <1>5 DEF ChildEnds, ManagerTypeOK
  <2> QED
    BY <2>1 DEF ChildInv
<1>6. ASSUME NEW c \in Attempts, Accept(c) PROVE ChildInv'
  <2>1. /\ \A b \in Attempts : link[b] = "none" => link'[b] = "none"
        /\ UNCHANGED <<child, result, due, outbox, said>>
    BY <1>0, <1>6 DEF Accept, ManagerTypeOK
  <2> QED
    BY <2>1 DEF ChildInv
<1>7. ASSUME NEW c \in Attempts, ReadyRead(c) PROVE ChildInv'
  <2> DEFINE s == socketOf[wired[c]]
  <2>0. link[c] = "open"
    BY <1>7 DEF ReadyRead
  <2>1. s \in Attempts
    <3>1. wired[c] \in Attempts /\ s # 0
      BY <1>0, <2>0 DEF BookInv
    <3> QED
      BY <1>0, <3>1 DEF ManagerTypeOK
  <2>2. UNCHANGED <<child, result, due, said, link>>
    BY <1>7 DEF ReadyRead
  <2>3. CASE UNCHANGED outbox
    BY <1>1, <2>2, <2>3
  <2>4. CASE outbox[s] # <<>> /\ outbox' = [outbox EXCEPT ![s] = Tail(@)]
    <3>1. \A i \in 1 .. Len(Tail(outbox[s])) :
            /\ i + 1 \in 1 .. Len(outbox[s])
            /\ Tail(outbox[s])[i] = outbox[s][i + 1]
      BY <1>0, <2>1, <2>4, OutboxFacts DEF ManagerTypeOK, Statuses
    <3>2. \A i \in 1 .. Len(Tail(outbox[s])) :
            Tail(outbox[s])[i] = "DISCONNECTED" => said[s] = "DISCONNECTED"
      BY <2>1, <3>1 DEF ChildInv
    <3>3. \A b \in Attempts : \A i \in 1 .. Len(outbox'[b]) :
            outbox'[b][i] = "DISCONNECTED" => said[b] = "DISCONNECTED"
      BY <1>0, <2>1, <2>4, <3>2 DEF ChildInv, ManagerTypeOK
    <3> QED
      BY <2>2, <3>3 DEF ChildInv
  <2> QED
    BY <1>7, <2>3, <2>4 DEF ReadyRead
<1>8. ASSUME NEW c \in Attempts, Disconnected(c) PROVE ChildInv'
  <2> DEFINE s == socketOf[wired[c]]
  <2>1. s \in Attempts /\ wired[s] # 0 /\ link[c] # "none"
    BY <1>0, <1>8 DEF Disconnected, BookInv, ManagerTypeOK
  <2>2. link[s] # "none"
    BY <1>0, <2>1 DEF BookInv
  <2>3. /\ link' = [link EXCEPT ![c] = "closed", ![s] = "closed"]
        /\ outbox' = [outbox EXCEPT ![c] = <<>>]
        /\ UNCHANGED <<child, result, due, said>>
    BY <1>8 DEF Disconnected
  <2>4. \A b \in Attempts : link[b] = "none" => link'[b] = "none"
    BY <1>0, <2>1, <2>2, <2>3 DEF ManagerTypeOK
  <2>5. Len(outbox'[c]) = 0 /\ \A b \in Attempts \ {c} : outbox'[b] = outbox[b]
    BY <1>0, <2>3, EmptySeq DEF ManagerTypeOK
  <2>6. \A i \in 1 .. Len(outbox'[c]) : FALSE
    BY <2>5
  <2>7. \A b \in Attempts : \A i \in 1 .. Len(outbox'[b]) :
          outbox'[b][i] = "DISCONNECTED" => said[b] = "DISCONNECTED"
    BY <2>5, <2>6 DEF ChildInv
  <2>8. \A a \in Attempts : link'[a] = "none" \/ link[a] # "none"
    BY <2>4
  <2> QED
    BY <2>3, <2>7, <2>8 DEF ChildInv
<1>9. ASSUME NEW a \in Attempts, ProcessFinished(a) \/ ProcessError(a) PROVE ChildInv'
  <2>1. UNCHANGED <<child, result, link, outbox, said>>
    BY <1>9 DEF ProcessFinished, ProcessError, ProcessHandler
  <2>2. \A b \in Attempts : \/ due'[b] = due[b]
                            \/ due'[b] = "done"
                            \/ due'[b] = "finished" /\ result[b] = "crash"
    <3>1. due \in [Attempts -> {"none", "error", "finished", "done"}]
      BY <1>0 DEF ManagerTypeOK
    <3> QED
      BY <1>9, <3>1 DEF ProcessFinished, ProcessError
  <2>3. \A b \in Attempts :
          /\ due'[b] = "error" => result[b] \in {"crash", "nostart"}
          /\ due'[b] = "finished" => result[b] \in {"ok", "failed", "crash"}
    BY <2>2 DEF ChildInv
  <2>4. \A b \in Attempts : \A i \in 1 .. Len(outbox[b]) :
          outbox[b][i] = "DISCONNECTED" => said[b] = "DISCONNECTED"
    BY DEF ChildInv
  <2>5. \A b \in Attempts : /\ result[b] = "none" <=> child[b] # "ended"
                            /\ result[b] = "nostart" => link[b] = "none"
    BY DEF ChildInv
  <2> QED
    BY <2>1, <2>3, <2>4, <2>5 DEF ChildInv
<1>10. \A a \in Attempts :
         ChildPrints(a) \/ SpecificMessage(a) \/ ReportTimer(a)
         => UNCHANGED <<result, child, link, due, outbox, said>>
  BY DEF ChildPrints, SpecificMessage, ReportTimer
<1>11. UNCHANGED vars \/ RefreshList \/ (\E n \in Names : StopVPN(n))
       => UNCHANGED <<result, child, link, due, outbox, said>>
  BY DEF vars, RefreshList, StopVPN
<1> QED
  BY <1>1, <1>2, <1>3, <1>4, <1>5, <1>6, <1>7, <1>8, <1>9, <1>10, <1>11
  DEF Next, ChildStep, GuiSlot

\* What every step hands on: the entries, reports and fates of the attempts.
Handed == FateInv /\ LiveIsManaged /\ NoFalseReport

\* The entry of attempt c is removed, by a status or a signal of c itself,
\* because c has ended or said that it is down.
LEMMA RemovalKeeps ==
  ASSUME AloneManagerInv, NEW c \in Started, NEW reported \in BOOLEAN,
         connections[NameOf(c)] \in {0, c},
         child[c] = "ended" \/ said[c] = "DISCONNECTED",
         ~reported => c \in ever \/ connections[NameOf(c)] = 0,
         reported /\ c \in ever => result[c] \in {"failed", "crash"},
         UNCHANGED <<started, child, result, said, told, stopped, output, explained,
                     specific, generic, ever>>,
         \A n \in Names : connections'[n] = IF n = NameOf(c) THEN 0 ELSE connections[n],
         reports' = IF connections[NameOf(c)] # 0 /\ reported
                    THEN reports \union {c} ELSE reports,
         \A a \in Attempts : link'[a] = "open" => link[a] = "open",
         \A a \in Attempts : a = c \/ due'[a] = due[a]
  PROVE  Handed'
<1>0. /\ Started \subseteq Attempts
      /\ Attempts \subseteq Nat \ {0}
      /\ \A a \in Started : NameOf(a) \in Names
  BY StartedFacts DEF AloneManagerInv, ManagerInv
<1>1. \A a \in Started :
        connections'[NameOf(a)] \in {0, connections[NameOf(a)]}
        /\ (connections[NameOf(a)] = a => a = c \/ connections'[NameOf(a)] = a)
  BY <1>0
<1>2. connections'[NameOf(c)] = 0
  BY <1>0
<1>3. FateInv'
  <2>0. FateInv
    BY DEF AloneManagerInv
  <2>1. /\ stopped \subseteq Started
        /\ told \subseteq stopped
        /\ \A a \in stopped : link'[a] = "open" => a \in told
    BY <1>0, <2>0 DEF FateInv
  <2>2. \A a \in stopped \union reports' \union generic :
          a \in Started /\ connections'[started[a]] # a
    BY <1>0, <1>1, <1>2, <2>0 DEF FateInv, NameOf
  <2>3. \A a \in Started : due'[a] = "finished" /\ result[a] = "crash" =>
          connections'[started[a]] # a
    BY <1>0, <1>1, <1>2, <2>0 DEF FateInv, NameOf
  <2>4. \A a \in Started : \/ connections'[started[a]] = a
                           \/ a \in ever \union stopped \union reports'
                           \/ a \in generic \union specific
                           \/ StartedAgain(a)
    <3> SUFFICES ASSUME NEW a \in Started
                 PROVE  \/ connections'[started[a]] = a
                        \/ a \in ever \union stopped \union reports'
                        \/ a \in generic \union specific
                        \/ StartedAgain(a)
      OBVIOUS
    <3>1. reports \subseteq reports'
      OBVIOUS
    <3>2. CASE connections[NameOf(a)] = a /\ a = c
      BY <1>0, <3>2
    <3>3. CASE connections[NameOf(a)] = a /\ a # c
      BY <1>1, <3>3 DEF NameOf
    <3>4. CASE connections[NameOf(a)] # a
      BY <2>0, <3>1, <3>4 DEF FateInv
    <3> QED
      BY <3>2, <3>3, <3>4
  <2> QED
    BY <2>0, <2>1, <2>2, <2>3, <2>4 DEF FateInv, StartedAgain, Started, NameOf
<1>4. LiveIsManaged'
  <2>1. \A a \in Started : Live(a) /\ a \notin stopped /\ said[a] # "DISCONNECTED"
          => connections'[started[a]] = a
    BY <1>0, <1>1 DEF AloneManagerInv, LiveIsManaged, Live, NameOf
  <2> QED
    BY <2>1 DEF LiveIsManaged, Live, Started, NameOf
<1>5. NoFalseReport'
  BY <1>0 DEF AloneManagerInv, FateInv, NoFalseReport
<1> QED
  BY <1>3, <1>4, <1>5 DEF Handed

\* Every step keeps the books on what becomes of an attempt.
LEMMA FateStep ==
  ASSUME ~Overlap, AloneManagerInv, [Next]_vars
  PROVE  Handed'
<1> USE DEF childVars, socketVars, dialogVars, windowVars, managerVars
<1>0. /\ ManagerInv /\ ManagerTypeOK /\ BookInv /\ DueInv /\ AloneInv /\ ChildInv
      /\ FateInv /\ LiveIsManaged /\ NoFalseReport
      /\ Started \subseteq Attempts
      /\ Attempts \subseteq Nat \ {0}
      /\ \A a \in Started : NameOf(a) \in Names
  BY StartedFacts DEF AloneManagerInv, ManagerInv
<1>1. CASE UNCHANGED <<started, child, result, due, link, said, told, connections, ever,
                       explained, reports, stopped, specific, generic>>
  <2>1. FateInv'
    BY <1>0, <1>1 DEF FateInv, StartedAgain, Started, NameOf
  <2> QED
    BY <1>0, <1>1, <2>1 DEF Handed, LiveIsManaged, NoFalseReport, Live, Started, NameOf
<1>2. ASSUME NEW n \in Names, StartVPN(n) PROVE Handed'
  <2> DEFINE b == Len(started) + 1
  <2>1. /\ b \in Attempts \ Started
        /\ Started' = Started \union {b}
        /\ started'[b] = n
        /\ \A a \in Started : started'[a] = started[a] /\ a < b
    BY <1>0, <1>2, StartGrows
  <2>2. /\ connections[n] = 0
        /\ connections' = [connections EXCEPT ![n] = b]
        /\ explained' = explained \ {n}
        /\ \/ due' = due /\ result' = result /\ child' = [child EXCEPT ![b] = "boot"]
           \/ /\ due' = [due EXCEPT ![b] = "error"]
              /\ result' = [result EXCEPT ![b] = "nostart"]
              /\ child' = [child EXCEPT ![b] = "ended"]
        /\ UNCHANGED <<link, said, told, ever, reports, stopped, specific, generic>>
    BY <1>2 DEF StartVPN
  <2> HIDE DEF b
  <2>3. /\ due'[b] # "finished"
        /\ \A a \in Started : child'[a] = child[a] /\ result'[a] = result[a] /\ due'[a] = due[a]
    BY <1>0, <2>1, <2>2 DEF ManagerTypeOK, BookInv, Untouched
  <2>4. \A a \in Started : (connections'[started[a]] = a <=> connections[started[a]] = a)
    BY <1>0, <2>1, <2>2 DEF ManagerTypeOK, NameOf
  <2>5. connections'[n] = b
    BY <1>0, <2>2 DEF ManagerTypeOK
  <2>6. \A a \in Started : StartedAgain(a) =>
          \E d \in Started' : d > a /\ started'[d] = started'[a]
    BY <2>1 DEF StartedAgain, NameOf
  <2>7. FateInv'
    <3>1. /\ stopped \subseteq Started'
          /\ told \subseteq stopped
          /\ \A a \in stopped : link[a] = "open" => a \in told
          /\ \A a \in stopped \union reports \union generic :
               a \in Started' /\ connections'[started'[a]] # a
      BY <1>0, <2>1, <2>4 DEF FateInv, NameOf
    <3>2. \A a \in ever : a \in Started' /\ result'[a] # "nostart"
      BY <1>0, <2>1, <2>3 DEF FateInv
    <3>3. \A a \in Started' : due'[a] = "finished" /\ result'[a] = "crash" =>
            connections'[started'[a]] # a
      BY <1>0, <2>1, <2>3, <2>4 DEF FateInv, NameOf
    <3>4. \A a \in Started' : \/ connections'[started'[a]] = a
                              \/ a \in ever \union stopped \union reports
                              \/ a \in generic \union specific
                              \/ \E d \in Started' : d > a /\ started'[d] = started'[a]
      BY <1>0, <2>1, <2>4, <2>5, <2>6 DEF FateInv, NameOf
    <3>5. \A a \in Started' : started'[a] \in explained' =>
            \/ a \in specific
            \/ \E d \in Started' : d > a /\ started'[d] = started'[a]
      BY <1>0, <2>1, <2>2, <2>6 DEF FateInv, NameOf
    <3> QED
      BY <2>2, <3>1, <3>2, <3>3, <3>4, <3>5 DEF FateInv, NameOf, StartedAgain
  <2>8. LiveIsManaged'
    BY <1>0, <2>1, <2>2, <2>3, <2>4, <2>5 DEF LiveIsManaged, Live, NameOf
  <2>9. NoFalseReport'
    BY <1>0, <2>1, <2>2, <2>3 DEF NoFalseReport, FateInv
  <2> QED
    BY <2>7, <2>8, <2>9 DEF Handed
<1>3. ASSUME NEW n \in Names, StopVPN(n) PROVE Handed'
  <2> DEFINE e == connections[n]
  <2>1. /\ e \in Started /\ NameOf(e) = n
        /\ told' = told \union Reached(e)
        /\ stopped' = stopped \union {e}
        /\ connections' = [connections EXCEPT ![n] = 0]
        /\ UNCHANGED <<started, child, result, due, link, said, ever, explained,
                       reports, specific, generic>>
    BY <1>0, <1>3 DEF StopVPN, BookInv
  <2>2. Reached(e) \subseteq {e} /\ (link[e] = "open" => e \in Reached(e))
    <3>1. \A c \in Reached(e) : link[c] = "open" /\ socketOf[e] = c /\ c \in Attempts
      BY DEF Reached
    <3>2. ASSUME NEW c \in Reached(e) PROVE wired[c] = e
      <4>1. \A a \in Attempts : socketOf[a] # 0 => wired[socketOf[a]] = a
        BY <1>0 DEF BookInv
      <4>2. e \in Attempts /\ socketOf[e] = c /\ c # 0
        BY <1>0, <2>1, <3>1
      <4> QED
        BY <4>1, <4>2
    <3>3. \A c \in Reached(e) : c = e
      BY <1>0, <2>1, <3>1, <3>2, OwnSocket
    <3>4. link[e] = "open" => socketOf[e] = e
      BY <1>0, <2>1, OwnSocket
    <3> QED
      BY <1>0, <2>1, <3>3, <3>4 DEF Reached
  <2> HIDE DEF e
  <2>3. \A a \in Started : \/ connections'[NameOf(a)] = connections[NameOf(a)]
                           \/ /\ connections'[NameOf(a)] = 0
                              /\ connections[NameOf(a)] = e /\ NameOf(a) = n
    BY <1>0, <2>1 DEF ManagerTypeOK, e
  <2>4. e \notin reports \union generic
    BY <1>0, <2>1 DEF FateInv, e
  <2>5. connections'[NameOf(e)] = 0
    BY <1>0, <2>1 DEF ManagerTypeOK
  <2>6. FateInv'
    <3>1. /\ stopped' \subseteq Started
          /\ told' \subseteq stopped'
          /\ \A a \in stopped' : link[a] = "open" => a \in told'
      BY <1>0, <2>1, <2>2 DEF FateInv
    <3>2. \A a \in stopped' \union reports \union generic :
            a \in Started /\ connections'[NameOf(a)] # a
      <4>1. \A a \in stopped \union reports \union generic :
              a \in Started /\ connections'[NameOf(a)] # a
        BY <1>0, <2>3 DEF FateInv
      <4> QED
        BY <1>0, <2>1, <2>5, <4>1
    <3>3. \A a \in Started : due[a] = "finished" /\ result[a] = "crash" =>
            connections'[NameOf(a)] # a
      BY <1>0, <2>3 DEF FateInv
    <3>4. \A a \in Started : \/ connections'[NameOf(a)] = a
                             \/ a \in ever \union stopped' \union reports
                             \/ a \in generic \union specific
                             \/ StartedAgain(a)
      BY <1>0, <2>1, <2>3 DEF FateInv
    <3> QED
      BY <1>0, <2>1, <3>1, <3>2, <3>3, <3>4 DEF FateInv, NameOf, StartedAgain, Started
  <2>7. \A a \in Started : Live(a) /\ a \notin stopped' /\ said[a] # "DISCONNECTED"
          => connections'[NameOf(a)] = a
    BY <1>0, <2>1, <2>3 DEF LiveIsManaged
  <2>8. LiveIsManaged'
    BY <2>1, <2>7 DEF LiveIsManaged, Live, NameOf, Started
  <2>9. NoFalseReport'
    BY <1>0, <2>1, <2>4 DEF NoFalseReport
  <2> QED
    BY <2>6, <2>8, <2>9 DEF Handed
<1>4. ASSUME NEW c \in Attempts, ReadyRead(c) PROVE Handed'
  <2> DEFINE m == Head(outbox[c])
  <2>1. /\ link[c] = "open" /\ c \in Started /\ NameOf(c) \in Names
        /\ wired[c] = c /\ socketOf[c] = c
        /\ connections[NameOf(c)] \in {0, c}
    BY <1>0, <1>4, OwnSocket DEF ReadyRead
  <2>2. UNCHANGED <<started, child, result, due, link, said, told, output, explained,
                    stopped, specific, generic>>
    BY <1>4 DEF ReadyRead
  <2>3. CASE UNCHANGED <<connections, ever, reports>>
    BY <1>1, <2>2, <2>3
  <2>4. CASE outbox[c] # <<>> /\ StatusChanged(NameOf(c), m)
    <3>1. /\ m \in Statuses
          /\ m = "DISCONNECTED" => said[c] = "DISCONNECTED"
      <4>1. "DISCONNECTED" \in Statuses /\ outbox[c] \in Seq(Statuses)
        BY <1>0 DEF ManagerTypeOK, Statuses
      <4>2. m \in Statuses /\ 1 \in 1 .. Len(outbox[c]) /\ m = outbox[c][1]
        BY <2>4, <4>1, OutboxFacts
      <4> QED
        BY <1>0, <4>2 DEF ChildInv
    <3> HIDE DEF m
    <3>2. /\ \A k \in Names : k # NameOf(c) => connections'[k] = connections[k]
          /\ connections'[NameOf(c)] = IF m = "DISCONNECTED" THEN 0 ELSE connections[NameOf(c)]
          /\ reports' = IF m = "DISCONNECTED" /\ connections[NameOf(c)] # 0
                           /\ connections[NameOf(c)] \notin ever
                        THEN reports \union {connections[NameOf(c)]} ELSE reports
          /\ ever' = IF m = "CONNECTED" /\ connections[NameOf(c)] # 0
                     THEN ever \union {connections[NameOf(c)]} ELSE ever
      BY <1>0, <2>1, <2>4, <3>1, StatusFacts
    <3>3. CASE m = "DISCONNECTED"
      <4>1. ever' = ever
        BY <3>2, <3>3
      <4>2. reports' = IF connections[NameOf(c)] # 0 /\ c \notin ever
                       THEN reports \union {c} ELSE reports
        BY <2>1, <3>2, <3>3
      <4>3. (c \notin ever) \in BOOLEAN
        OBVIOUS
      <4>4. \A n \in Names : connections'[n] = IF n = NameOf(c) THEN 0 ELSE connections[n]
        BY <3>2, <3>3
      <4> QED
        BY <1>0, <2>1, <2>2, <3>1, <3>3, <4>1, <4>2, <4>3, <4>4, RemovalKeeps
    <3>4. CASE m # "DISCONNECTED"
      <4>1. /\ \A k \in Names : connections'[k] = connections[k]
            /\ reports' = reports
            /\ ever' \in {ever, ever \union {c}}
            /\ ever' # ever => connections[NameOf(c)] = c
        BY <2>1, <3>2, <3>4
      <4>2. result[c] # "nostart"
        BY <1>0, <2>1 DEF ChildInv
      <4>3. FateInv'
        <5>1. \A a \in Started : connections'[NameOf(a)] = connections[NameOf(a)]
          BY <1>0, <4>1
        <5> QED
          BY <1>0, <2>1, <2>2, <4>1, <4>2, <5>1 DEF FateInv, NameOf, StartedAgain, Started
      <4>4. LiveIsManaged'
        BY <1>0, <2>2, <4>1 DEF LiveIsManaged, Live, NameOf, Started
      <4>5. NoFalseReport'
        BY <1>0, <2>1, <2>2, <4>1 DEF NoFalseReport, FateInv
      <4> QED
        BY <4>3, <4>4, <4>5 DEF Handed
    <3> QED
      BY <3>3, <3>4
  <2> QED
    BY <1>4, <2>1, <2>3, <2>4 DEF ReadyRead
<1>5. ASSUME NEW c \in Attempts, Disconnected(c) PROVE Handed'
  <2>1. /\ link[c] = "open" /\ c \in Started /\ NameOf(c) \in Names
        /\ wired[c] = c /\ socketOf[c] = c
        /\ connections[NameOf(c)] \in {0, c}
        /\ child[c] = "ended"
    BY <1>0, <1>5, OwnSocket DEF Disconnected
  <2>2. /\ StatusChanged(NameOf(c), "DISCONNECTED")
        /\ link' = [link EXCEPT ![c] = "closed", ![c] = "closed"]
        /\ UNCHANGED <<started, child, result, due, said, told, output, explained,
                       stopped, specific, generic>>
    BY <1>5, <2>1 DEF Disconnected
  <2>3. "DISCONNECTED" \in Statuses
    BY DEF Statuses
  <2>4. /\ \A n \in Names : connections'[n] = IF n = NameOf(c) THEN 0 ELSE connections[n]
        /\ reports' = IF connections[NameOf(c)] # 0 /\ c \notin ever
                      THEN reports \union {c} ELSE reports
        /\ ever' = ever
    BY <1>0, <2>1, <2>2, <2>3, StatusFacts
  <2>5. \A a \in Attempts : link'[a] = "open" => link[a] = "open"
    BY <1>0, <2>2 DEF ManagerTypeOK
  <2>6. (c \notin ever) \in BOOLEAN
    OBVIOUS
  <2> QED
    BY <1>0, <2>1, <2>2, <2>4, <2>5, <2>6, RemovalKeeps
<1>6. ASSUME NEW c \in Attempts, NEW reporting \in BOOLEAN, ProcessHandler(c, reporting),
             due[c] \in {"error", "finished"},
             \A a \in Attempts : a = c \/ due'[a] = due[a],
             ~reporting => connections[NameOf(c)] \in ever \/ connections[NameOf(c)] = 0,
             reporting => \/ result[c] \in {"failed", "crash", "nostart"}
                          \/ connections[NameOf(c)] \notin ever
      PROVE  Handed'
  <2>1. /\ c \in Started
        /\ child[c] = "ended"
        /\ connections[NameOf(c)] \in {0, c}
    BY <1>0, <1>6, OwnEntry DEF BookInv, Untouched, DueInv, Settled
  <2>2. /\ \A n \in Names : connections'[n] = IF n = NameOf(c) THEN 0 ELSE connections[n]
        /\ reports' = IF connections[NameOf(c)] # 0 /\ reporting
                      THEN reports \union {c} ELSE reports
    BY <1>0, <1>6, <2>1, HandlerFacts
  <2>3. UNCHANGED <<started, child, result, link, said, told, stopped, output, explained,
                    specific, generic, ever>>
    BY <1>6 DEF ProcessHandler
  <2>4. CASE connections[NameOf(c)] = 0
    <3>1. reports' = reports
      BY <2>2, <2>4
    <3> QED
      BY <1>0, <1>6, <2>1, <2>2, <2>3, <2>4, <3>1, RemovalKeeps
  <2>5. CASE connections[NameOf(c)] = c
    <3>1. /\ ~reporting => c \in ever
          /\ reporting /\ c \in ever => result[c] \in {"failed", "crash"}
      BY <1>0, <1>6, <2>1, <2>5 DEF FateInv
    <3> QED
      BY <1>0, <1>6, <2>1, <2>2, <2>3, <3>1, RemovalKeeps
  <2> QED
    BY <2>1, <2>4, <2>5
<1>7. ASSUME NEW c \in Attempts, ProcessFinished(c) PROVE Handed'
  <2> DEFINE reporting == \/ result[c] = "failed"
                          \/ result[c] = "ok" /\ connections[NameOf(c)] \notin ever
  <2>1. /\ due[c] = "finished"
        /\ ProcessHandler(c, reporting)
        /\ \A a \in Attempts : a = c \/ due'[a] = due[a]
    BY <1>0, <1>7 DEF ProcessFinished, ManagerTypeOK
  <2>2. /\ c \in Started
        /\ connections[NameOf(c)] \in {0, c}
        /\ result[c] \in {"ok", "failed", "crash"}
    BY <1>0, <2>1, OwnEntry DEF BookInv, Untouched, Settled, ChildInv
  <2>3. result[c] = "crash" => connections[NameOf(c)] = 0
    BY <1>0, <2>1, <2>2 DEF FateInv
  <2>4. reporting \in BOOLEAN
    OBVIOUS
  <2>5. ~reporting => connections[NameOf(c)] \in ever \/ connections[NameOf(c)] = 0
    BY <2>2, <2>3
  <2>6. reporting => \/ result[c] \in {"failed", "crash", "nostart"}
                     \/ connections[NameOf(c)] \notin ever
    OBVIOUS
  <2> QED
    BY <1>6, <2>1, <2>4, <2>5, <2>6
<1>8. ASSUME NEW c \in Attempts, ProcessError(c) PROVE Handed'
  <2>1. /\ due[c] = "error"
        /\ ProcessHandler(c, TRUE)
        /\ \A a \in Attempts : a = c \/ due'[a] = due[a]
    BY <1>0, <1>8 DEF ProcessError, ManagerTypeOK
  <2>2. result[c] \in {"crash", "nostart"}
    BY <1>0, <2>1 DEF ChildInv
  <2> QED
    BY <1>6, <2>1, <2>2
<1>9. ASSUME NEW a \in Attempts, ChildConnects(a) PROVE Handed'
  <2>1. /\ child[a] = "boot"
        /\ child' = [child EXCEPT ![a] = "online"]
        /\ link' = [link EXCEPT ![a] = "pending"]
        /\ UNCHANGED <<started, result, due, said, told, connections, ever, explained,
                       reports, stopped, specific, generic>>
    BY <1>9 DEF ChildConnects
  <2>2. /\ \A b \in Attempts : link'[b] = "open" => link[b] = "open"
        /\ \A b \in Attempts : child'[b] = "ended" <=> child[b] = "ended"
        /\ \A b \in Attempts : child'[b] = "online" => child[b] \in {"boot", "online"}
    BY <1>0, <2>1 DEF ManagerTypeOK
  <2>3. FateInv'
    BY <1>0, <2>1, <2>2 DEF FateInv, StartedAgain, Started, NameOf
  <2>4. LiveIsManaged'
    BY <1>0, <2>1 DEF LiveIsManaged, Live, Started, NameOf, ManagerTypeOK
  <2>5. NoFalseReport'
    BY <1>0, <2>1, <2>2 DEF NoFalseReport, FateInv
  <2> QED
    BY <2>3, <2>4, <2>5 DEF Handed
<1>10. ASSUME NEW a \in Attempts, ChildReports(a) PROVE Handed'
  <2>1. said[a] # "DISCONNECTED"
    BY <1>10 DEF ChildReports, Child!NextStatus
  <2>2. UNCHANGED <<started, child, result, due, link, told, connections, ever, explained,
                    reports, stopped, specific, generic>>
    BY <1>10 DEF ChildReports
  <2>3. \A b \in Attempts : b = a \/ said'[b] = said[b]
    BY <1>0, <1>10 DEF ChildReports, ManagerTypeOK
  <2>4. FateInv'
    BY <1>0, <2>2 DEF FateInv, StartedAgain, Started, NameOf
  <2>5. LiveIsManaged'
    BY <1>0, <2>1, <2>2, <2>3 DEF LiveIsManaged, Live, Started, NameOf
  <2>6. NoFalseReport'
    BY <1>0, <2>1, <2>2, <2>3 DEF NoFalseReport, FateInv
  <2> QED
    BY <2>4, <2>5, <2>6 DEF Handed
<1>11. ASSUME NEW a \in Attempts, NEW r \in {"ok", "failed", "crash"}, ChildEnds(a, r)
       PROVE Handed'
  <2>1. /\ Live(a) /\ result[a] = "none"
        /\ UNCHANGED <<started, link, said, told, connections, ever, explained,
                       reports, stopped, specific, generic>>
    BY <1>0, <1>11 DEF ChildEnds, Live, ChildInv
  <2>2. /\ \A b \in Attempts \ {a} :
             child'[b] = child[b] /\ result'[b] = result[b] /\ due'[b] = due[b]
        /\ child'[a] = "ended" /\ result'[a] = r
        /\ due'[a] = IF r = "crash" THEN "error" ELSE "finished"
    BY <1>0, <1>11 DEF ChildEnds, ManagerTypeOK
  <2>3. FateInv'
    <3>1. \A b \in ever : b \in Started /\ result'[b] # "nostart"
      BY <1>0, <2>2 DEF FateInv
    <3>2. \A b \in Started : due'[b] = "finished" /\ result'[b] = "crash" =>
            connections[NameOf(b)] # b
      BY <1>0, <2>2 DEF FateInv
    <3> QED
      BY <1>0, <2>1, <3>1, <3>2 DEF FateInv, StartedAgain, Started, NameOf
  <2>4. LiveIsManaged'
    BY <1>0, <2>1, <2>2 DEF LiveIsManaged, Live, Started, NameOf
  <2>5. NoFalseReport'
    BY <1>0, <2>1, <2>2 DEF NoFalseReport, FateInv
  <2> QED
    BY <2>3, <2>4, <2>5 DEF Handed
<1>12. ASSUME NEW c \in Attempts, Accept(c) PROVE Handed'
  <2>1. /\ c \in Started
        /\ connections[NameOf(c)] \in {0, c}
    BY <1>0, <1>12, OwnEntry DEF Accept, BookInv, Untouched, Settled
  <2>2. /\ \A b \in Attempts : link'[b] = "open" =>
             link[b] = "open" \/ (b = c /\ connections[NameOf(c)] = c)
        /\ UNCHANGED <<started, child, result, due, said, told, connections, ever,
                       explained, reports, stopped, specific, generic>>
    BY <1>0, <1>12, <2>1 DEF Accept, ManagerTypeOK
  <2>3. \A b \in stopped : link'[b] = "open" => b \in told
    BY <1>0, <2>2 DEF FateInv
  <2>4. FateInv'
    BY <1>0, <2>2, <2>3 DEF FateInv, StartedAgain, Started, NameOf
  <2> QED
    BY <1>0, <2>2, <2>4 DEF Handed, LiveIsManaged, NoFalseReport, Live, Started, NameOf
<1>13. ASSUME NEW a \in Attempts, ReportTimer(a) PROVE Handed'
  <2>1. /\ a \in reports
        /\ reports' = reports \ {a}
        /\ generic' = IF NameOf(a) \in explained \/ connections[NameOf(a)] # 0
                      THEN generic ELSE generic \union {a}
        /\ UNCHANGED <<started, child, result, due, link, said, told, connections, ever,
                       explained, stopped, specific>>
    BY <1>13 DEF ReportTimer
  <2>2. a \in Started /\ connections[NameOf(a)] # a
    BY <1>0, <2>1 DEF FateInv
  <2>3. a \notin generic' => a \in specific \/ StartedAgain(a)
    <3>1. CASE NameOf(a) \in explained
      BY <1>0, <2>2, <3>1 DEF FateInv
    <3>2. CASE connections[NameOf(a)] # 0
      <4> DEFINE e == connections[NameOf(a)]
      <4>1. e \in Started /\ NameOf(e) = NameOf(a) /\ e # a
        BY <1>0, <2>2, <3>2 DEF BookInv
      <4>2. ~(e < a)
        BY <1>0, <2>2, <4>1 DEF AloneInv, Settled, DueInv
      <4>3. e > a
        <5>1. e \in Nat /\ a \in Nat
          BY <1>0, <4>1
        <5> HIDE DEF e
        <5> QED
          BY <4>1, <4>2, <5>1
      <4> QED
        BY <4>1, <4>3 DEF StartedAgain
    <3> QED
      BY <2>1, <3>1, <3>2
  <2>4. generic' \subseteq generic \union {a} /\ generic \subseteq generic'
    BY <2>1
  <2>5. FateInv'
    <3>1. \A b \in stopped \union reports' \union generic' :
            b \in Started /\ connections[NameOf(b)] # b
      BY <1>0, <2>1, <2>2, <2>4 DEF FateInv
    <3>2. \A b \in Started : \/ connections[NameOf(b)] = b
                             \/ b \in ever \union stopped \union reports'
                             \/ b \in generic' \union specific
                             \/ StartedAgain(b)
      BY <1>0, <2>1, <2>3, <2>4 DEF FateInv
    <3> QED
      BY <1>0, <2>1, <3>1, <3>2 DEF FateInv, StartedAgain, Started, NameOf
  <2>6. LiveIsManaged'
    BY <1>0, <2>1 DEF LiveIsManaged, Live, Started, NameOf
  <2>7. NoFalseReport'
    BY <1>0, <2>1, <2>4 DEF NoFalseReport
  <2> QED
    BY <2>5, <2>6, <2>7 DEF Handed
<1>14. ASSUME NEW a \in Attempts, SpecificMessage(a) PROVE Handed'
  <2>1. /\ output[a] = "printed"
        /\ explained' = explained \union {NameOf(a)}
        /\ specific' = specific \union {a}
        /\ UNCHANGED <<started, child, result, due, link, said, told, connections, ever,
                       reports, stopped, generic>>
    BY <1>14 DEF SpecificMessage
  <2>2. a \in Started /\ ~Settled(a)
    BY <1>0, <2>1 DEF BookInv, Untouched, Settled
  <2>3. \A b \in Started : NameOf(b) = NameOf(a) => b = a \/ StartedAgain(b)
    <3> SUFFICES ASSUME NEW b \in Started, NameOf(b) = NameOf(a), b # a
                 PROVE  StartedAgain(b)
      OBVIOUS
    <3>1. ~(a < b)
      BY <1>0, <2>2 DEF AloneInv
    <3>2. a > b
      BY <1>0, <2>2, <3>1
    <3> QED
      BY <2>2, <3>2 DEF StartedAgain
  <2>4. \A b \in Started : NameOf(b) \in explained' => b \in specific' \/ StartedAgain(b)
    BY <1>0, <2>1, <2>3 DEF FateInv
  <2>5. FateInv'
    <3>1. \A b \in Started : \/ connections[NameOf(b)] = b
                             \/ b \in ever \union stopped \union reports
                             \/ b \in generic \union specific'
                             \/ StartedAgain(b)
      BY <1>0, <2>1 DEF FateInv
    <3> QED
      BY <1>0, <2>1, <2>4, <3>1 DEF FateInv, StartedAgain, Started, NameOf
  <2> QED
    BY <1>0, <2>1, <2>5 DEF Handed, LiveIsManaged, NoFalseReport, Live, Started, NameOf
<1>15. \A a \in Attempts : ChildPrints(a) =>
         UNCHANGED <<started, child, result, due, link, said, told, connections, ever,
                     explained, reports, stopped, specific, generic>>
  BY DEF ChildPrints
<1>16. UNCHANGED vars \/ RefreshList =>
         UNCHANGED <<started, child, result, due, link, said, told, connections, ever,
                     explained, reports, stopped, specific, generic>>
  BY DEF vars, RefreshList
<1> QED
  BY <1>1, <1>2, <1>3, <1>4, <1>5, <1>7, <1>8, <1>9, <1>10, <1>11, <1>12, <1>13,
     <1>14, <1>15, <1>16 DEF Next, ChildStep, GuiSlot

\* The invariant of a manager whose VPNs are started again only when all events
\* of their last attempt were handled.
THEOREM AloneInvariant == ~Overlap /\ Spec => []AloneManagerInv
<1> SUFFICES ASSUME ~Overlap PROVE Spec => []AloneManagerInv
  OBVIOUS
<1>1. ManagerInit => ManagerInv
  BY ManagerStarts
<1>2. ManagerInit => AloneInv /\ ChildInv /\ FateInv /\ LiveIsManaged /\ NoFalseReport
  <2> SUFFICES ASSUME ManagerInit
               PROVE  AloneInv /\ ChildInv /\ FateInv /\ LiveIsManaged /\ NoFalseReport
    OBVIOUS
  <2>1. Started = {} /\ \A a \in Attempts : Len(outbox[a]) = 0
    BY DEF ManagerInit, Started
  <2>2. \A a \in Attempts : \A i \in 1 .. Len(outbox[a]) : FALSE
    BY <2>1
  <2> QED
    BY <2>1, <2>2 DEF ManagerInit, AloneInv, ChildInv, FateInv, LiveIsManaged, NoFalseReport
<1>3. AloneManagerInv /\ [Next]_vars => AloneManagerInv'
  <2>1. ManagerInv /\ [Next]_vars => ManagerInv'
    BY TypeStep, BookStep, DueStep, WindowStep DEF ManagerInv
  <2> QED
    BY <2>1, AloneStep, ChildStepKeeps, FateStep DEF AloneManagerInv, Handed
<1> QED
  BY <1>1, <1>2, <1>3, PTL DEF Spec, AloneManagerInv

\* Whoever runs, was not stopped and did not say good-bye can be stopped.
THEOREM RunningIsManaged == ~Overlap /\ Spec => []LiveIsManaged
BY AloneInvariant, PTL DEF AloneManagerInv

\* A failure report is about an attempt that failed.
THEOREM ReportsAreTrue == ~Overlap /\ Spec => []NoFalseReport
BY AloneInvariant, PTL DEF AloneManagerInv

\* An attempt that ends without ever being connected has been explained.
THEOREM FailuresAreReported == ~Overlap /\ Spec => []NoSilentFailure
<1>1. AloneManagerInv => NoSilentFailure
  BY DEF AloneManagerInv, ManagerInv, DueInv, FateInv, NoSilentFailure, Over, Settled
<1> QED
  BY <1>1, AloneInvariant, PTL

\* Stopping a VPN tells its process, and no other.
THEOREM StopsAreTold == ~Overlap /\ Spec => []StopReachesProcess
<1>1. AloneManagerInv => StopReachesProcess
  BY DEF AloneManagerInv, FateInv, StopReachesProcess
<1> QED
  BY <1>1, AloneInvariant, PTL
=============================================================================

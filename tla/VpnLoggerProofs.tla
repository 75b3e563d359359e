---------------------------- MODULE VpnLoggerProofs ----------------------------
(***************************************************************************)
(* Proofs about VpnLogger for any profiles, attempts, output and bounds:   *)
(* whose output a signal is about (Attribution), that the logger listens   *)
(* as long as a process may be heard of (Listening) and no longer          *)
(* (StateGoesWithProcess), that one attempt opens one browser              *)
(* (BrowserOnce), and that a refused certificate is no failed login,       *)
(* wherever the output is cut (RefusedCertIsNotAuth).                      *)
(***************************************************************************)
EXTENDS VpnLogger, SequenceTheorems, TLAPS

-----------------------------------------------------------------------------
(* The inductive invariant.                                                *)

\* The attempts of a name the logger has heard of and may hear of again.
Expected == heard \ (handled \union lost)
Live(n) == {b \in Expected : NameOf(b) = n}

\* A piece of output that only processes of a set have written.
WrittenBy(chunk, set) == \A i \in DOMAIN chunk : chunk[i].by \in set

\* A process that is gone has nothing more to say; whose end is known, or will
\* never be, is gone.  Output of a process nobody has read is its own.
ProcessInv ==
  /\ arrived \subseteq Started
  /\ handled \subseteq heard
  /\ \A a \in arrived : child[a] # "gone" /\ buffer[a] # <<>>
  /\ \A a \in handled \union lost : child[a] = "gone"
  /\ \A a \in Attempts : WrittenBy(buffer[a], {a})

\* A call brings output of its own process.
Carries(call) == call.do = "data" => call.data # <<>> /\ WrittenBy(call.data, {call.of})

\* addVPN() of an attempt is queued until it runs, one after the other; data
\* and the end of it only come when it has, and nothing after the end.
QueueInv ==
  /\ heard \subseteq Started
  /\ \A a \in heard, b \in Started : b < a => b \in heard
  /\ \A i \in DOMAIN calls : calls[i].do = "add" => calls[i].of \notin heard
  /\ \A a \in Started \ heard : \E i \in DOMAIN calls : calls[i].do = "add" /\ calls[i].of = a
  /\ \A i, j \in DOMAIN calls :
       i < j /\ calls[i].do = "add" /\ calls[j].do = "add" => calls[i].of < calls[j].of
  /\ \A i \in DOMAIN calls : calls[i].do # "add" => calls[i].of \in Expected
  /\ \A i \in DOMAIN calls : Carries(calls[i])
  /\ \A i \in DOMAIN calls : calls[i].do = "finished" =>
       /\ child[calls[i].of] = "gone"
       /\ \A j \in DOMAIN calls : i < j => calls[j].do = "add" \/ calls[j].of # calls[i].of

\* What the logger keeps of a name belongs to processes it expects to hear of,
\* and the log to the last one it has heard of.
LogInv ==
  \A n \in Names :
    /\ ~log[n].open => log[n] = NoLog
    /\ log[n].open =>
         /\ log[n].proc \in heard \ handled
         /\ NameOf(log[n].proc) = n
         /\ \A b \in heard : NameOf(b) = n => b <= log[n].proc
    /\ WrittenBy(pending[n], Live(n))
    /\ WrittenBy(log[n].certBuffer, Live(n))
    /\ Len(log[n].certBuffer) <= CertLimit

\* Two attempts of a name of which the first is still expected have overlapped.
OverlapInv ==
  \A b, c \in heard : b < c /\ NameOf(b) = NameOf(c) /\ b \in Expected
                        => {b, c} \subseteq overlapped

\* The browser was opened at most once, and the log knows.
BrowserInv ==
  /\ \A a \in Attempts : opened[a] <= 1 /\ (opened[a] = 1 => a \in heard)
  /\ \A n \in Names : log[n].open /\ opened[log[n].proc] = 1 => log[n].saml

\* The calls that bring output of an attempt.
DataOf(a) == {i \in DOMAIN calls : calls[i].do = "data" /\ calls[i].of = a}

\* A piece that ends within a refused certificate, and one that begins behind it:
\* its details, or the failed login openfortivpn makes of it.
EndsInCert(chunk) == Len(chunk) > 0 /\ chunk[Len(chunk)].line \in {"cert", "detail"}
BeginsBehind(chunk) == Len(chunk) > 0 /\ chunk[1].line \in {"denied", "detail"}

\* The last the logger has of a name is a refused certificate: at the end of what
\* is pending, or it is in the mode already.
HeldInCert(n) == EndsInCert(pending[n]) \/ (Len(pending[n]) = 0 /\ log[n].certMode)

\* The last the logger gets of an attempt before the k-th call is that.
CertBefore(a, k) ==
  /\ a \in heard
  /\ \/ \E j \in DataOf(a) : /\ j < k /\ EndsInCert(calls[j].data)
                            /\ \A i \in DataOf(a) : i < k => i <= j
     \/ HeldInCert(NameOf(a)) /\ \A i \in DataOf(a) : ~(i < k)

\* What comes of a refused certificate is behind it, in the piece or before.
Follows(chunk) ==
  \A i \in DOMAIN chunk : chunk[i].line \in {"denied", "detail"} =>
    BeginsBehind(chunk) \/ \E j \in DOMAIN chunk : j < i /\ chunk[j].line = "cert"

\* The attempts RefusedCertIsNotAuth is about, as long as they may be heard of.
Watched == Attempts \ (overlapped \union mixed \union swallowed \union handled \union lost)

\* So it is from piece to piece, up to what the process prints next.
HeldFollows(n) == Follows(pending[n]) /\ (BeginsBehind(pending[n]) => log[n].certMode)

CallsFollow(a) ==
  \A k \in DataOf(a) :
    Follows(calls[k].data) /\ (BeginsBehind(calls[k].data) => CertBefore(a, k))

BufferFollows(a) ==
  /\ Follows(buffer[a])
  /\ BeginsBehind(buffer[a]) => CertBefore(a, Len(calls) + 1)
  /\ last[a] = "cert" => \/ EndsInCert(buffer[a])
                         \/ Len(buffer[a]) = 0 /\ CertBefore(a, Len(calls) + 1)

CertOf(a) == (a \in heard => HeldFollows(NameOf(a))) /\ CallsFollow(a) /\ BufferFollows(a)

CertInv == \A a \in Watched : CertOf(a)

LoggerInv ==
  /\ LoggerTypeOK
  /\ ProcessInv
  /\ QueueInv
  /\ LogInv
  /\ OverlapInv
  /\ Listening
  /\ Attribution
  /\ BrowserInv
  /\ CertInv
  /\ RefusedCertIsNotAuth

-----------------------------------------------------------------------------
(* Who changes what.                                                       *)

ProcessAction(a) == ChildEnds(a) \/ Answer(a) \/ \E l \in Lines : ChildPrints(a, l)

LEMMA Steps ==
  ASSUME [Next]_vars
  PROVE  \/ \E n \in Names : StartVPN(n)
         \/ \E a \in Started : ProcessAction(a)
         \/ \E a \in Started : ReadyRead(a) \/ Finished(a)
         \/ \E a \in Started : AddVPN(a) \/ LogVPNData(a) \/ ProcFinished(a)
         \/ FlushPending
         \/ UNCHANGED vars
BY DEF Next, MainSlot, LoggerSlot, ProcessAction

\* What the logger keeps, and what is remembered of it, but for its signals.
keptVars == <<heard, log, pending, timer, opened, overlapped, cut, mixed, swallowed>>

\* The processes and the main thread leave all of it alone; an answer takes its
\* prompt from the signals.
LEMMA Frames ==
  /\ \A n \in Names : StartVPN(n) => UNCHANGED <<last, printed, certFailed, mainVars,
                                                 loggerVars, handled>>
  /\ \A a \in Started : ProcessAction(a) =>
       UNCHANGED <<started, calls, handled, lost, keptVars>> /\ shown' \subseteq shown
  /\ \A a \in Started : ReadyRead(a) \/ Finished(a) =>
       UNCHANGED <<started, last, printed, certFailed, loggerVars, handled>>
  /\ \A a \in Started : AddVPN(a) \/ LogVPNData(a) \/ ProcFinished(a) =>
       UNCHANGED <<processVars, mainVars, lost>>
  /\ FlushPending => UNCHANGED <<processVars, mainVars, heard, overlapped, cut, calls,
                                 handled, lost>>
<1>1. \A n \in Names : StartVPN(n) => UNCHANGED <<last, printed, certFailed, mainVars,
                                                  loggerVars, handled>>
  BY DEF StartVPN
<1>2. \A a \in Started : ProcessAction(a) =>
        UNCHANGED <<started, calls, handled, lost, keptVars>> /\ shown' \subseteq shown
  BY DEF ProcessAction, ChildEnds, Answer, ChildPrints, loggerVars, keptVars
<1>3. \A a \in Started : ReadyRead(a) \/ Finished(a) =>
        UNCHANGED <<started, last, printed, certFailed, loggerVars, handled>>
  BY DEF ReadyRead, Finished, processVars
<1>4. \A a \in Started : AddVPN(a) \/ LogVPNData(a) \/ ProcFinished(a) =>
        UNCHANGED <<processVars, mainVars, lost>>
  BY DEF AddVPN, LogVPNData, ProcFinished
<1>5. FlushPending => UNCHANGED <<processVars, mainVars, heard, overlapped, cut, calls,
                                  handled, lost>>
  BY DEF FlushPending
<1> QED
  BY <1>1, <1>2, <1>3, <1>4, <1>5

-----------------------------------------------------------------------------
(* The types.                                                              *)

CallsOf(set) == [do: {"add", "data", "finished"}, of: set, data: Seq(Output)]
Lasts == (Lines \ {"detail"}) \union {"none", "tunnel", "down", "out"}
Logs == [open: BOOLEAN, proc: Attempts \union {0}, certMode: BOOLEAN,
         certBuffer: Seq(Output), saml: BOOLEAN]

\* What the processes and the main thread have, and what the logger has.
OuterTypes ==
  /\ started \in Seq(Names) /\ Len(started) <= MaxAttempts
  /\ child \in [Attempts -> {"none", "run", "wait", "ended", "gone"}]
  /\ last \in [Attempts -> Lasts]
  /\ printed \in 0 .. MaxLines
  /\ buffer \in [Attempts -> Seq(Output)]
  /\ arrived \subseteq Attempts
  /\ calls \in Seq(CallsOf(Started))
  /\ lost \subseteq Started
  /\ certFailed \subseteq Started

InnerTypes ==
  /\ heard \subseteq Attempts
  /\ log \in [Names -> Logs]
  /\ pending \in [Names -> Seq(Output)]
  /\ timer \in BOOLEAN
  /\ shown \subseteq Signals
  /\ opened \in [Attempts -> Nat]
  /\ handled \subseteq Started
  /\ overlapped \subseteq Started
  /\ cut \subseteq Started
  /\ mixed \subseteq Started
  /\ swallowed \subseteq Started

LEMMA TypeParts == LoggerTypeOK <=> OuterTypes /\ InnerTypes
BY DEF LoggerTypeOK, OuterTypes, InnerTypes, CallsOf, Logs, Lasts

LEMMA AttemptTypes ==
  ASSUME LoggerTypeOK
  PROVE  /\ Started = 1 .. Len(started) /\ Len(started) \in Nat
         /\ Started \subseteq Attempts
         /\ \A a \in Started : NameOf(a) \in Names
<1>1. started \in Seq(Names) /\ Len(started) <= MaxAttempts /\ MaxAttempts \in Nat
  BY LoggerAssumption DEF LoggerTypeOK
<1> QED
  BY <1>1 DEF Started, Attempts, NameOf

\* A call is put at the end of the queue, and the first one taken from it.
LEMMA PostType ==
  ASSUME LoggerTypeOK, NEW S, Started \subseteq S,
         NEW do \in {"add", "data", "finished"}, NEW a \in S,
         NEW data \in Seq(Output), calls' = Post(do, a, data)
  PROVE  calls' \in Seq(CallsOf(S))
<1> DEFINE c == [do |-> do, of |-> a, data |-> data]
<1>1. c \in CallsOf(S) /\ CallsOf(Started) \subseteq CallsOf(S)
  BY DEF CallsOf
<1>2. calls' = Append(calls, c)
  BY DEF Post
<1>3. calls \in Seq(CallsOf(Started))
  BY TypeParts DEF OuterTypes
<1> HIDE DEF c
<1>4. calls \in Seq(CallsOf(S))
  BY <1>1, <1>3, SeqMonotonic
<1> QED
  BY <1>1, <1>2, <1>4, AppendProperties

LEMMA PostEnd ==
  ASSUME LoggerTypeOK, NEW do, NEW a, NEW data, calls' = Post(do, a, data)
  PROVE  LET c == [do |-> do, of |-> a, data |-> data] IN
         /\ Len(calls) \in Nat /\ DOMAIN calls = 1 .. Len(calls)
         /\ DOMAIN calls' = 1 .. Len(calls) + 1 /\ Len(calls') = Len(calls) + 1
         /\ \A i \in 1 .. Len(calls) : calls'[i] = calls[i]
         /\ calls'[Len(calls) + 1] = c
<1> DEFINE c == [do |-> do, of |-> a, data |-> data]
           S == CallsOf(Started) \union {c}
<1>1. calls' = Append(calls, c)
  BY DEF Post
<1>2. calls \in Seq(CallsOf(Started))
  BY TypeParts DEF OuterTypes
<1> HIDE DEF c
<1>3. calls \in Seq(S) /\ c \in S
  BY <1>2, SeqMonotonic
<1> HIDE DEF S
<1>4. /\ calls' \in Seq(S) /\ Len(calls') = Len(calls) + 1
      /\ \A i \in 1 .. Len(calls) : calls'[i] = calls[i]
      /\ calls'[Len(calls) + 1] = c
  BY <1>1, <1>3, AppendProperties
<1>5. Len(calls) \in Nat /\ DOMAIN calls = 1 .. Len(calls) /\ DOMAIN calls' = 1 .. Len(calls')
  BY <1>3, <1>4
<1> QED
  BY <1>4, <1>5 DEF c

LEMMA CallFacts ==
  ASSUME LoggerTypeOK, NEW do, NEW a, Call(do, a)
  PROVE  /\ calls \in Seq(CallsOf(Started)) /\ calls # <<>> /\ 1 \in DOMAIN calls
         /\ calls[1].do = do /\ calls[1].of = a /\ Head(calls) = calls[1]
         /\ calls[1].data \in Seq(Output)
         /\ calls' \in Seq(CallsOf(Started)) /\ Len(calls') = Len(calls) - 1
         /\ Len(calls) \in Nat /\ DOMAIN calls = 1 .. Len(calls)
         /\ DOMAIN calls' = 1 .. Len(calls) - 1
         /\ \A i \in 1 .. Len(calls) - 1 : calls'[i] = calls[i + 1]
<1>1. calls \in Seq(CallsOf(Started)) /\ calls # <<>> /\ calls' = Tail(calls)
  BY TypeParts DEF Call, OuterTypes
<1>2. Len(calls) \in Nat \ {0} /\ Head(calls) = calls[1] /\ DOMAIN calls = 1 .. Len(calls)
  BY <1>1, EmptySeq
<1>3. /\ calls' \in Seq(CallsOf(Started)) /\ Len(calls') = Len(calls) - 1
      /\ \A i \in 1 .. Len(calls') : calls'[i] = calls[i + 1]
  BY <1>1, HeadTailProperties
<1>6. DOMAIN calls' = 1 .. Len(calls) - 1
  BY <1>2, <1>3
<1>4. calls[1] \in CallsOf(Started)
  BY <1>1, <1>2
<1>5. calls[1].data \in Seq(Output)
  BY <1>4 DEF CallsOf
<1> QED
  BY <1>1, <1>2, <1>3, <1>5, <1>6 DEF Call

LEMMA NoLogType == NoLog \in Logs /\ ~NoLog.open /\ ~NoLog.certMode /\ NoLog.certBuffer = <<>>
BY DEF NoLog, Logs

\* What processOutput() leaves in the maps of a name.
LEMMA LogAfterFacts ==
  ASSUME LoggerTypeOK, NEW n \in Names, NEW chunk \in Seq(Output)
  PROVE  /\ LogAfter(n, chunk) \in Logs
         /\ LogAfter(n, chunk).open = log[n].open /\ LogAfter(n, chunk).proc = log[n].proc
         /\ ~log[n].open => LogAfter(n, chunk) = log[n]
         /\ log[n].saml => LogAfter(n, chunk).saml
         /\ Verdict(n, chunk) = "passed" /\ WantsBrowser(n, chunk) => LogAfter(n, chunk).saml
         /\ Verdict(n, chunk) = "passed" =>
              /\ LogAfter(n, chunk).certMode = (CertFlow(n, chunk) /\ ~CertComplete(n, chunk))
              /\ log[n].open
         /\ \/ LogAfter(n, chunk).certBuffer = <<>>
            \/ LogAfter(n, chunk).certBuffer = log[n].certBuffer
            \/ LogAfter(n, chunk).certBuffer = log[n].certBuffer \o chunk
         /\ Len(log[n].certBuffer) <= CertLimit => Len(LogAfter(n, chunk).certBuffer) <= CertLimit
<1>1. log[n] \in Logs
  BY TypeParts DEF InnerTypes
<1>2. CASE Verdict(n, chunk) # "passed"
  BY <1>1, <1>2 DEF LogAfter
<1>3. CASE Verdict(n, chunk) = "passed"
  <2>1. log[n].open
    BY <1>3 DEF Verdict
  <2> DEFINE mode == CertFlow(n, chunk) /\ ~CertComplete(n, chunk)
             buf == IF CertComplete(n, chunk) THEN <<>> ELSE Collected(n, chunk)
             cue == log[n].saml \/ Contains(chunk, "saml")
  <2>2. LogAfter(n, chunk) = [log[n] EXCEPT !.saml = cue, !.certMode = mode, !.certBuffer = buf]
    BY <1>3 DEF LogAfter
  <2>3. mode \in BOOLEAN /\ cue \in BOOLEAN
    OBVIOUS
  <2>4. buf = <<>> \/ buf = log[n].certBuffer \/ buf = log[n].certBuffer \o chunk
    BY DEF Collected
  <2>5. buf \in Seq(Output)
    <3>1. log[n].certBuffer \in Seq(Output)
      BY <1>1 DEF Logs
    <3>2. log[n].certBuffer \o chunk \in Seq(Output)
      BY <3>1, ConcatProperties
    <3>3. <<>> \in Seq(Output)
      OBVIOUS
    <3> HIDE DEF buf
    <3> QED
      BY <2>4, <3>1, <3>2, <3>3, Zenon
  <2>6. WantsBrowser(n, chunk) => cue
    BY DEF WantsBrowser
  <2>7. log[n].saml => cue
    OBVIOUS
  <2>9. Len(log[n].certBuffer) <= CertLimit => Len(buf) <= CertLimit
    <3>1. CASE CertComplete(n, chunk)
      <4>1. Len(buf) = 0 /\ CertLimit \in Nat
        BY <3>1, LoggerAssumption
      <4> HIDE DEF buf
      <4> QED
        BY <4>1
    <3>2. CASE ~CertComplete(n, chunk) /\ CertFlow(n, chunk)
      <4>1. buf = Collected(n, chunk) /\ ~(Len(Collected(n, chunk)) > CertLimit)
        BY <3>2 DEF CertComplete
      <4>2. Len(buf) \in Nat /\ CertLimit \in Nat
        BY <2>5, LoggerAssumption
      <4> HIDE DEF buf
      <4> QED
        BY <4>1, <4>2
    <3>3. CASE ~CertFlow(n, chunk)
      <4>1. buf = log[n].certBuffer
        BY <3>3 DEF CertComplete, Collected
      <4> QED
        BY <4>1
    <3> QED
      BY <3>1, <3>2, <3>3
  <2> HIDE DEF mode, buf, cue
  <2>8. /\ LogAfter(n, chunk) \in Logs
        /\ LogAfter(n, chunk).open = log[n].open /\ LogAfter(n, chunk).proc = log[n].proc
        /\ LogAfter(n, chunk).saml = cue /\ LogAfter(n, chunk).certMode = mode
        /\ LogAfter(n, chunk).certBuffer = buf
    BY <1>1, <2>2, <2>3, <2>5 DEF Logs
  <2> QED
    BY <1>3, <2>1, <2>4, <2>6, <2>7, <2>8, <2>9 DEF mode
<1> QED
  BY <1>2, <1>3

\* Pieces of output.
LEMMA ConcatWritten ==
  ASSUME NEW p \in Seq(Output), NEW q \in Seq(Output), NEW S
  PROVE  /\ p \o q \in Seq(Output) /\ Len(p \o q) = Len(p) + Len(q)
         /\ \A i \in DOMAIN p : (p \o q)[i] = p[i]
         /\ \A i \in DOMAIN q : (p \o q)[Len(p) + i] = q[i]
         /\ WrittenBy(p, S) /\ WrittenBy(q, S) => WrittenBy(p \o q, S)
         /\ \A i \in DOMAIN (p \o q) :
              \/ i \in DOMAIN p /\ (p \o q)[i] = p[i]
              \/ i - Len(p) \in DOMAIN q /\ (p \o q)[i] = q[i - Len(p)]
<1>1. /\ p \o q \in Seq(Output) /\ Len(p \o q) = Len(p) + Len(q)
      /\ \A i \in 1 .. Len(p) + Len(q) : (p \o q)[i] = IF i <= Len(p) THEN p[i] ELSE q[i - Len(p)]
  BY ConcatProperties
<1>2. DOMAIN p = 1 .. Len(p) /\ DOMAIN q = 1 .. Len(q) /\ Len(p) \in Nat /\ Len(q) \in Nat
  OBVIOUS
<1>3. DOMAIN (p \o q) = 1 .. Len(p) + Len(q)
  BY <1>1
<1>4. ASSUME NEW i \in DOMAIN (p \o q)
      PROVE  \/ i \in DOMAIN p /\ (p \o q)[i] = p[i]
             \/ i - Len(p) \in DOMAIN q /\ (p \o q)[i] = q[i - Len(p)]
  <2>1. i \in 1 .. Len(p) + Len(q)
    BY <1>3
  <2>2. CASE i <= Len(p)
    BY <1>1, <1>2, <2>1, <2>2
  <2>3. CASE i > Len(p)
    <3>1. i - Len(p) \in 1 .. Len(q)
      BY <1>2, <2>1, <2>3
    <3> QED
      BY <1>1, <1>2, <2>1, <2>3, <3>1
  <2> QED
    BY <1>2, <2>1, <2>2, <2>3
<1>5. WrittenBy(p, S) /\ WrittenBy(q, S) => WrittenBy(p \o q, S)
  BY <1>4 DEF WrittenBy
<1>6. \A i \in DOMAIN q : (p \o q)[Len(p) + i] = q[i]
  BY <1>1, <1>2
<1> QED
  BY <1>1, <1>2, <1>4, <1>5, <1>6

\* What processOutput() emits: of whose output, for which process.
LEMMA EmittedFacts ==
  ASSUME LoggerTypeOK, NEW n \in Names, NEW chunk \in Seq(Output),
         NEW s \in EmittedBy(n, chunk)
  PROVE  /\ log[n].open /\ s.to = log[n].proc
         /\ \/ \E i \in DOMAIN chunk : s.from = chunk[i].by
            \/ \E i \in DOMAIN log[n].certBuffer : s.from = log[n].certBuffer[i].by
         /\ s.kind = "denied" => /\ Verdict(n, chunk) = "auth" /\ ~CertFlow(n, chunk)
                                 /\ \E i \in DOMAIN chunk : /\ chunk[i].line = "denied"
                                                            /\ s.from = chunk[i].by
         /\ s.kind \in {"error", "auth", "denied", "saml", "prompt", "cert"}
         /\ s = [kind |-> s.kind, from |-> s.from, to |-> s.to]
<1> DEFINE From(f) == \/ \E i \in DOMAIN chunk : f = chunk[i].by
                      \/ \E i \in DOMAIN log[n].certBuffer : f = log[n].certBuffer[i].by
<1>0. Verdict(n, chunk) \in {"closed", "error", "auth", "passed"} /\ Verdict(n, chunk) # "closed"
  BY DEF Verdict, EmittedBy
<1>1. log[n].open
  BY <1>0 DEF Verdict
<1>2. \A line : \A f \in Writers(chunk, line) :
        \E i \in DOMAIN chunk : chunk[i].line = line /\ f = chunk[i].by
  BY DEF Writers
<1>3. CASE Verdict(n, chunk) \in {"error", "auth"}
  <2>1. PICK kind \in {"error", "auth", "denied"} :
          s \in Emit(kind, Writers(chunk, kind), n) /\ (kind # "error" => Verdict(n, chunk) = "auth")
    BY <1>3 DEF EmittedBy
  <2>2. /\ s.kind = kind /\ s.from \in Writers(chunk, kind) /\ s.to = log[n].proc
        /\ s = [kind |-> s.kind, from |-> s.from, to |-> s.to]
    BY <2>1 DEF Emit
  <2>3. Verdict(n, chunk) = "auth" => ~CertFlow(n, chunk)
    BY DEF Verdict
  <2> QED
    BY <1>1, <1>2, <1>3, <2>1, <2>2, <2>3
<1>4. CASE Verdict(n, chunk) = "passed"
  <2> DEFINE saml == IF WantsBrowser(n, chunk) THEN Writers(chunk, "saml") ELSE {}
             cert == IF CertComplete(n, chunk)
                     THEN {Collected(n, chunk)[i].by : i \in DOMAIN Collected(n, chunk)}
                     ELSE {}
  <2>1. EmittedBy(n, chunk) =
          Emit("saml", saml, n) \union Emit("prompt", Prompts(chunk), n) \union Emit("cert", cert, n)
    BY <1>4 DEF EmittedBy
  <2>2. \A f \in saml : From(f)
    BY <1>2
  <2>3. \A f \in Prompts(chunk) : From(f)
    BY DEF Prompts
  <2>4. \A f \in cert : From(f)
    <3> SUFFICES ASSUME NEW i \in DOMAIN Collected(n, chunk) PROVE From(Collected(n, chunk)[i].by)
      OBVIOUS
    <3>1. log[n].certBuffer \in Seq(Output)
      BY TypeParts DEF InnerTypes, Logs
    <3>2. CASE Collected(n, chunk) = log[n].certBuffer
      BY <3>2
    <3>3. CASE Collected(n, chunk) = log[n].certBuffer \o chunk
      <4> DEFINE b == log[n].certBuffer
      <4>1. \/ i \in DOMAIN b /\ (b \o chunk)[i] = b[i]
            \/ i - Len(b) \in DOMAIN chunk /\ (b \o chunk)[i] = chunk[i - Len(b)]
        BY <3>1, <3>3, ConcatWritten
      <4> QED
        BY <3>3, <4>1
    <3> QED
      BY <3>2, <3>3 DEF Collected
  <2> HIDE DEF saml, cert
  <2>5. /\ s.kind \in {"saml", "prompt", "cert"} /\ s.to = log[n].proc
        /\ s.from \in saml \/ s.from \in Prompts(chunk) \/ s.from \in cert
        /\ s = [kind |-> s.kind, from |-> s.from, to |-> s.to]
    BY <2>1 DEF Emit
  <2> QED
    BY <1>1, <2>2, <2>3, <2>4, <2>5
<1> QED
  BY <1>0, <1>3, <1>4

LEMMA AppendWritten ==
  ASSUME NEW p \in Seq(Output), NEW x \in Output, NEW S
  PROVE  /\ Append(p, x) \in Seq(Output) /\ Len(Append(p, x)) = Len(p) + 1
         /\ Append(p, x) # <<>> /\ Append(p, x)[Len(p) + 1] = x
         /\ \A i \in DOMAIN p : Append(p, x)[i] = p[i]
         /\ WrittenBy(p, S) /\ x.by \in S => WrittenBy(Append(p, x), S)
<1>1. /\ Append(p, x) \in Seq(Output) /\ Len(Append(p, x)) = Len(p) + 1
      /\ \A i \in 1 .. Len(p) : Append(p, x)[i] = p[i]
      /\ Append(p, x)[Len(p) + 1] = x
  BY AppendProperties
<1>2. DOMAIN p = 1 .. Len(p) /\ Len(p) \in Nat
  OBVIOUS
<1>3. DOMAIN Append(p, x) = 1 .. Len(p) + 1
  BY <1>1
<1>4. WrittenBy(p, S) /\ x.by \in S => WrittenBy(Append(p, x), S)
  <2> SUFFICES ASSUME WrittenBy(p, S), x.by \in S, NEW i \in DOMAIN Append(p, x)
               PROVE  Append(p, x)[i].by \in S
    BY DEF WrittenBy
  <2>1. CASE i = Len(p) + 1
    BY <1>1, <2>1
  <2>2. CASE i # Len(p) + 1
    <3>1. i \in DOMAIN p
      BY <1>2, <1>3, <2>2
    <3>2. Append(p, x)[i] = p[i]
      BY <1>1, <1>2, <3>1
    <3> QED
      BY <3>1, <3>2 DEF WrittenBy
  <2> QED
    BY <2>1, <2>2
<1>5. Append(p, x) # <<>>
  <2>1. Len(Append(p, x)) # 0 /\ Len(<<>>) = 0
    BY <1>1, <1>2
  <2> QED
    BY <2>1, Zenon
<1> QED
  BY <1>1, <1>2, <1>4, <1>5

\* What logVPNData() collects, or processes at once.
LEMMA DataFacts ==
  ASSUME LoggerTypeOK, QueueInv, LogInv, NEW a \in Started, LogVPNData(a)
  PROVE  /\ NameOf(a) \in Names /\ a \in Expected
         /\ Call("data", a)
         /\ calls[1].data # <<>> /\ WrittenBy(calls[1].data, {a})
         /\ calls[1].data \in Seq(Output) /\ pending[NameOf(a)] \in Seq(Output)
         /\ pending[NameOf(a)] \o Head(calls).data = pending[NameOf(a)] \o calls[1].data
         /\ pending[NameOf(a)] \o calls[1].data \in Seq(Output)
         /\ WrittenBy(pending[NameOf(a)] \o calls[1].data, Live(NameOf(a)))
<1>1. Call("data", a)
  BY DEF LogVPNData
<1>2. NameOf(a) \in Names
  BY AttemptTypes
<1>3. /\ 1 \in DOMAIN calls /\ calls[1].do = "data" /\ calls[1].of = a
      /\ Head(calls) = calls[1] /\ calls[1].data \in Seq(Output)
  BY <1>1, CallFacts
<1>4. /\ a \in Expected /\ calls[1].data # <<>> /\ WrittenBy(calls[1].data, {a})
  BY <1>3 DEF QueueInv, Carries
<1>5. WrittenBy(calls[1].data, Live(NameOf(a)))
  BY <1>4 DEF WrittenBy, Live
<1>6. pending[NameOf(a)] \in Seq(Output) /\ WrittenBy(pending[NameOf(a)], Live(NameOf(a)))
  BY <1>2, TypeParts DEF InnerTypes, LogInv
<1> QED
  BY <1>1, <1>2, <1>3, <1>4, <1>5, <1>6, ConcatWritten

\* A new attempt is the next number.
LEMMA StartFacts ==
  ASSUME LoggerTypeOK, NEW n \in Names, StartVPN(n)
  PROVE  LET a == Len(started) + 1 IN
         /\ a \in Attempts /\ a \notin Started /\ \A b \in Started : b < a
         /\ started' \in Seq(Names) /\ Len(started') = a /\ Started' = Started \union {a}
         /\ \A b \in Started : NameOf(b)' = NameOf(b)
         /\ started'[a] = n
         /\ calls' = Post("add", a, <<>>)
         /\ \/ child' = [child EXCEPT ![a] = "run"] /\ lost' = lost
            \/ child' = [child EXCEPT ![a] = "gone"] /\ lost' = lost \union {a}
<1> DEFINE a == Len(started) + 1
<1>1. started \in Seq(Names) /\ started' = Append(started, n) /\ a \in Attempts
  BY TypeParts DEF OuterTypes, StartVPN
<1>2. /\ started' \in Seq(Names) /\ Len(started') = Len(started) + 1
      /\ \A i \in 1 .. Len(started) : started'[i] = started[i]
      /\ started'[Len(started) + 1] = n
  BY <1>1, AppendProperties
<1>3. Started = 1 .. Len(started) /\ Started' = 1 .. Len(started') /\ Len(started) \in Nat
  BY <1>1, <1>2 DEF Started
<1>4. \A b \in Started : NameOf(b)' = NameOf(b)
  BY <1>2, <1>3 DEF NameOf
<1>5. /\ Started' = Started \union {a} /\ a \notin Started /\ \A b \in Started : b < a
  BY <1>2, <1>3
<1> QED
  BY <1>1, <1>2, <1>4, <1>5 DEF StartVPN

LEMMA OuterStep ==
  ASSUME LoggerTypeOK, QueueInv, ProcessInv, [Next]_vars
  PROVE  OuterTypes' /\ Started \subseteq Started'
<1>0. /\ OuterTypes
      /\ child \in [Attempts -> {"none", "run", "wait", "ended", "gone"}]
      /\ last \in [Attempts -> Lasts]
      /\ buffer \in [Attempts -> Seq(Output)]
      /\ lost \subseteq Started /\ certFailed \subseteq Started /\ arrived \subseteq Attempts
      /\ Started \subseteq Attempts
  BY TypeParts, AttemptTypes DEF OuterTypes
<1>1. ASSUME NEW n \in Names, StartVPN(n) PROVE OuterTypes' /\ Started \subseteq Started'
  <2> DEFINE a == Len(started) + 1
  <2>1. /\ a \in Attempts /\ started' \in Seq(Names) /\ Len(started') = a
        /\ Started' = Started \union {a} /\ calls' = Post("add", a, <<>>)
        /\ \/ child' = [child EXCEPT ![a] = "run"] /\ lost' = lost
           \/ child' = [child EXCEPT ![a] = "gone"] /\ lost' = lost \union {a}
    BY <1>1, StartFacts
  <2>2. Len(started') <= MaxAttempts
    BY <2>1 DEF Attempts
  <2>3. calls' \in Seq(CallsOf(Started'))
    <3>1. Started \subseteq Started' /\ a \in Started' /\ <<>> \in Seq(Output)
      BY <2>1
    <3> QED
      BY <2>1, <3>1, PostType
  <2>4. child' \in [Attempts -> {"none", "run", "wait", "ended", "gone"}] /\ lost' \subseteq Started'
    BY <1>0, <2>1
  <2>5. UNCHANGED <<last, printed, certFailed, buffer, arrived>>
    BY <1>1, Frames DEF mainVars
  <2> QED
    BY <1>0, <2>1, <2>2, <2>3, <2>4, <2>5 DEF OuterTypes
<1>2. started' = started => Started' = Started
  BY DEF Started
<1>3. ASSUME NEW a \in Started, ProcessAction(a) PROVE OuterTypes' /\ Started \subseteq Started'
  <2>1. UNCHANGED <<started, calls, lost>> /\ Started' = Started /\ a \in Attempts
    BY <1>0, <1>2, <1>3, Frames
  <2>2. CASE ChildEnds(a) \/ Answer(a)
    <3>1. /\ child' \in [Attempts -> {"none", "run", "wait", "ended", "gone"}]
          /\ UNCHANGED <<last, printed, certFailed, buffer, arrived>>
      BY <1>0, <2>2 DEF ChildEnds, Answer, mainVars
    <3> QED
      BY <1>0, <2>1, <3>1 DEF OuterTypes
  <2>3. ASSUME NEW l \in Lines, ChildPrints(a, l) PROVE OuterTypes' /\ Started \subseteq Started'
    <3>1. child' \in [Attempts -> {"none", "run", "wait", "ended", "gone"}]
      BY <1>0, <2>3 DEF ChildPrints
    <3>2. PICK next \in After(last[a], l) :
             /\ last' = [last EXCEPT ![a] = next]
             /\ certFailed' = IF next = "cert" THEN certFailed \union {a} ELSE certFailed
      BY <2>3 DEF ChildPrints
    <3>3. next \in Lasts
      BY DEF After, Lines, Lasts, Connecting
    <3>4. last' \in [Attempts -> Lasts] /\ certFailed' \subseteq Started
      BY <1>0, <3>2, <3>3
    <3>5. printed' \in 0 .. MaxLines
      <4>1. printed \in 0 .. MaxLines /\ MaxLines \in Nat
        BY <1>0, LoggerAssumption DEF OuterTypes
      <4>2. started \in Seq(Names) /\ a \in 1 .. Len(started)
        BY <1>0, AttemptTypes DEF OuterTypes
      <4>3. Len(started) \in Nat \ {0}
        BY <4>2
      <4>4. /\ printed' + 2 * (Len(started) - 1) <= MaxLines
            /\ printed' = printed \/ printed' = printed + 1
        BY <4>1, <2>3 DEF ChildPrints
      <4> QED
        BY <4>1, <4>3, <4>4
    <3>6. buffer' \in [Attempts -> Seq(Output)] /\ arrived' \subseteq Attempts
      <4> DEFINE x == [by |-> a, line |-> l]
      <4>1. x \in Output
        BY <2>1 DEF Output
      <4>2. buffer' = [buffer EXCEPT ![a] = Append(@, x)] /\ arrived' = arrived \union {a}
        BY <2>3 DEF ChildPrints
      <4> HIDE DEF x
      <4>3. Append(buffer[a], x) \in Seq(Output)
        BY <1>0, <2>1, <4>1, AppendWritten
      <4> QED
        BY <1>0, <2>1, <4>2, <4>3
    <3> QED
      BY <1>0, <2>1, <3>1, <3>4, <3>5, <3>6 DEF OuterTypes
  <2> QED
    BY <1>3, <2>2, <2>3 DEF ProcessAction
<1>4. ASSUME NEW a \in Started, ReadyRead(a) \/ Finished(a)
      PROVE  OuterTypes' /\ Started \subseteq Started'
  <2>1. UNCHANGED <<started, last, printed, certFailed>> /\ Started' = Started /\ a \in Attempts
    BY <1>0, <1>2, <1>4, Frames
  <2>2. calls' \in Seq(CallsOf(Started))
    <3>1. CASE calls' = calls
      BY <1>0, <3>1 DEF OuterTypes
    <3>2. CASE calls' = Post("data", a, buffer[a])
      <4>1. buffer[a] \in Seq(Output)
        BY <1>0, <2>1
      <4> QED
        BY <3>2, <4>1, PostType
    <3>3. CASE calls' = Post("finished", a, <<>>)
      <4>1. <<>> \in Seq(Output)
        OBVIOUS
      <4> QED
        BY <3>3, <4>1, PostType
    <3> QED
      BY <1>4, <3>1, <3>2, <3>3 DEF ReadyRead, Finished
  <2>3. CASE ReadyRead(a)
    <3>1. /\ buffer' = buffer \/ buffer' = [buffer EXCEPT ![a] = <<>>]
          /\ arrived' = arrived \ {a} /\ child' = child /\ lost' = lost
      BY <2>3 DEF ReadyRead, processVars
    <3>2. buffer' \in [Attempts -> Seq(Output)]
      <4>1. <<>> \in Seq(Output)
        OBVIOUS
      <4> QED
        BY <1>0, <3>1, <4>1
    <3> QED
      BY <1>0, <2>1, <2>2, <3>1, <3>2 DEF OuterTypes
  <2>4. CASE Finished(a)
    <3>1. /\ child' = [child EXCEPT ![a] = "gone"] /\ UNCHANGED <<buffer, arrived>>
          /\ lost' = lost \/ lost' = lost \union {a}
      BY <2>4 DEF Finished, mainVars
    <3>2. child' \in [Attempts -> {"none", "run", "wait", "ended", "gone"}]
      BY <1>0, <3>1
    <3> QED
      BY <1>0, <2>1, <2>2, <3>1, <3>2 DEF OuterTypes
  <2> QED
    BY <1>4, <2>3, <2>4
<1>5. ASSUME NEW a \in Started, AddVPN(a) \/ LogVPNData(a) \/ ProcFinished(a)
      PROVE  OuterTypes' /\ Started \subseteq Started'
  <2>1. UNCHANGED <<processVars, mainVars, lost>>
    BY <1>5, Frames
  <2>2. PICK do \in {"add", "data", "finished"} : Call(do, a)
    BY <1>5 DEF AddVPN, LogVPNData, ProcFinished
  <2>3. calls' \in Seq(CallsOf(Started))
    BY <2>2, CallFacts
  <2> QED
    BY <1>0, <1>2, <2>1, <2>3 DEF OuterTypes, processVars, mainVars
<1>6. CASE FlushPending \/ UNCHANGED vars
  <2>1. UNCHANGED <<processVars, mainVars, calls, lost>>
    BY <1>6, Frames DEF vars
  <2> QED
    BY <1>0, <1>2, <2>1 DEF OuterTypes, processVars, mainVars
<1> QED
  BY <1>1, <1>3, <1>4, <1>5, <1>6, Steps

\* A piece the logger may process under a name.
Piece(n, chunk) ==
  /\ chunk \in Seq(Output)
  /\ WrittenBy(chunk, Live(n))
  /\ \A a \in Live(n) \intersect Watched :
       Follows(chunk) /\ (BeginsBehind(chunk) => log[n].certMode)

LEMMA PendingPiece ==
  ASSUME LoggerTypeOK, LogInv, CertInv, NEW n \in Names
  PROVE  Piece(n, pending[n])
<1>1. \A a \in Live(n) \intersect Watched :
        Follows(pending[n]) /\ (BeginsBehind(pending[n]) => log[n].certMode)
  BY DEF CertInv, CertOf, HeldFollows, Live, Expected
<1> QED
  BY <1>1, TypeParts DEF InnerTypes, LogInv, Piece

\* One piece after the other.
LEMMA ConcatFollows ==
  ASSUME NEW p \in Seq(Output), NEW q \in Seq(Output)
  PROVE  /\ Follows(p) /\ Follows(q) /\ (Len(p) > 0 /\ BeginsBehind(q) => EndsInCert(p))
              => Follows(p \o q)
         /\ BeginsBehind(p \o q) => BeginsBehind(p) \/ (Len(p) = 0 /\ BeginsBehind(q))
         /\ EndsInCert(q) => EndsInCert(p \o q)
<1> DEFINE r == p \o q
<1>1. /\ Len(r) = Len(p) + Len(q) /\ Len(p) \in Nat /\ Len(q) \in Nat
      /\ \A i \in 1 .. Len(p) + Len(q) : r[i] = IF i <= Len(p) THEN p[i] ELSE q[i - Len(p)]
  BY ConcatProperties
<1> HIDE DEF r
<1>2. ASSUME Follows(p), Follows(q), Len(p) > 0 /\ BeginsBehind(q) => EndsInCert(p)
      PROVE  Follows(r)
  <2>1. Len(p) > 0 => r[1] = p[1]
    BY <1>1
  <2>2. BeginsBehind(p) => BeginsBehind(r)
    BY <1>1, <2>1 DEF BeginsBehind
  <2>3. /\ DOMAIN r = 1 .. Len(p) + Len(q) /\ DOMAIN p = 1 .. Len(p) /\ DOMAIN q = 1 .. Len(q)
    BY <1>1 DEF r
  \* What is behind a refused certificate in p is behind it in r.
  <2>4. ASSUME NEW k \in DOMAIN p, p[k].line \in {"denied", "detail"}, NEW i \in DOMAIN r, k <= i
        PROVE  BeginsBehind(r) \/ \E j \in DOMAIN r : j < i /\ r[j].line = "cert"
    <3>1. CASE BeginsBehind(p)
      BY <2>2, <3>1
    <3>2. ASSUME NEW j \in DOMAIN p, j < k, p[j].line = "cert"
          PROVE  \E h \in DOMAIN r : h < i /\ r[h].line = "cert"
      <4>1. j \in DOMAIN r /\ j < i /\ r[j] = p[j]
        BY <1>1, <2>3, <2>4, <3>2
      <4> QED
        BY <3>2, <4>1
    <3> QED
      BY <1>2, <2>4, <3>1, <3>2 DEF Follows
  <2> SUFFICES ASSUME NEW i \in DOMAIN r, r[i].line \in {"denied", "detail"}
               PROVE  BeginsBehind(r) \/ \E j \in DOMAIN r : j < i /\ r[j].line = "cert"
    BY DEF Follows
  <2>5. CASE i <= Len(p)
    <3>1. i \in DOMAIN p /\ r[i] = p[i] /\ i <= i
      BY <1>1, <2>3, <2>5
    <3> QED
      BY <2>4, <3>1
  <2>6. CASE i > Len(p)
    <3>1. i - Len(p) \in DOMAIN q /\ r[i] = q[i - Len(p)]
      BY <1>1, <2>3, <2>6
    <3>2. CASE \E h \in DOMAIN q : h < i - Len(p) /\ q[h].line = "cert"
      <4>1. PICK h \in DOMAIN q : h < i - Len(p) /\ q[h].line = "cert"
        BY <3>2
      <4>2. Len(p) + h \in DOMAIN r /\ Len(p) + h < i /\ r[Len(p) + h] = q[h]
        BY <1>1, <2>3, <4>1
      <4> QED
        BY <4>1, <4>2
    <3>3. CASE BeginsBehind(q) /\ Len(p) > 0
      <4>1. EndsInCert(p) /\ Len(p) \in DOMAIN p /\ Len(p) < i
        BY <1>1, <1>2, <2>3, <2>6, <3>3
      <4>2. CASE p[Len(p)].line = "cert"
        <5>1. Len(p) \in DOMAIN r /\ r[Len(p)] = p[Len(p)]
          BY <1>1, <2>3, <3>3
        <5> QED
          BY <4>1, <4>2, <5>1
      <4>3. CASE p[Len(p)].line = "detail"
        <5>1. Len(p) <= i
          BY <2>6
        <5> QED
          BY <2>4, <4>1, <4>3, <5>1
      <4> QED
        BY <4>1, <4>2, <4>3 DEF EndsInCert
    <3>4. CASE BeginsBehind(q) /\ Len(p) = 0
      <4>1. Len(q) > 0 /\ Len(r) > 0 /\ r[1] = q[1]
        BY <1>1, <3>4 DEF BeginsBehind
      <4> QED
        BY <3>4, <4>1 DEF BeginsBehind
    <3>5. BeginsBehind(q) \/ \E h \in DOMAIN q : h < i - Len(p) /\ q[h].line = "cert"
      BY <1>2, <2>6, <3>1 DEF Follows
    <3> QED
      BY <1>1, <3>2, <3>3, <3>4, <3>5
  <2> QED
    BY <1>1, <2>3, <2>5, <2>6
<1>3. BeginsBehind(r) => BeginsBehind(p) \/ (Len(p) = 0 /\ BeginsBehind(q))
  <2>1. CASE Len(p) = 0
    <3>1. Len(r) > 0 => Len(q) > 0 /\ r[1] = q[1]
      BY <1>1, <2>1
    <3> QED
      BY <2>1, <3>1 DEF BeginsBehind
  <2>2. CASE Len(p) > 0
    <3>1. r[1] = p[1]
      BY <1>1, <2>2
    <3> QED
      BY <2>2, <3>1 DEF BeginsBehind
  <2> QED
    BY <1>1, <2>1, <2>2
<1>4. EndsInCert(q) => EndsInCert(r)
  <2>1. Len(q) > 0 => Len(r) > 0 /\ r[Len(r)] = q[Len(q)]
    BY <1>1
  <2> QED
    BY <2>1 DEF EndsInCert
<1> QED
  BY <1>2, <1>3, <1>4 DEF r

\* An expected attempt that has not overlapped is the only one of its name.
LEMMA OnlyOne ==
  ASSUME LoggerTypeOK, QueueInv, OverlapInv, NEW a \in Expected, NEW b \in Expected,
         NameOf(a) = NameOf(b), a \notin overlapped
  PROVE  a = b
<1>1. a \in heard /\ b \in heard /\ a \in Int /\ b \in Int
  BY AttemptTypes DEF Expected, QueueInv, Attempts
<1>2. ~(a < b) /\ ~(b < a)
  BY <1>1 DEF OverlapInv
<1> QED
  BY <1>1, <1>2

LEMMA DataPiece ==
  ASSUME LoggerTypeOK, QueueInv, LogInv, CertInv, OverlapInv, NEW a \in Started, LogVPNData(a)
  PROVE  Piece(NameOf(a), pending[NameOf(a)] \o calls[1].data)
<1>1. 1 \in DOMAIN calls
  BY DataFacts, CallFacts
<1>4. ASSUME NEW b \in Live(NameOf(a)) \intersect Watched
      PROVE  /\ Follows(pending[NameOf(a)] \o calls[1].data)
             /\ BeginsBehind(pending[NameOf(a)] \o calls[1].data) => log[NameOf(a)].certMode
  <2>1. b = a
    <3>1. a \in Expected /\ b \in Expected /\ NameOf(b) = NameOf(a) /\ b \notin overlapped
      BY DataFacts DEF Live, Watched
    <3> QED
      BY <3>1, OnlyOne
  <2>2. 1 \in DataOf(a) /\ \A i \in DataOf(a) : ~(i < 1)
    <3>1. Call("data", a)
      BY DEF LogVPNData
    <3>2. /\ 1 \in DOMAIN calls /\ calls[1].do = "data" /\ calls[1].of = a
          /\ DOMAIN calls = 1 .. Len(calls)
      BY <3>1, CallFacts
    <3> QED
      BY <3>2 DEF DataOf
  <2> DEFINE n == NameOf(a)
             p == pending[n]
             q == calls[1].data
  <2>3. a \in Watched /\ a \in heard
    BY <2>1 DEF Live, Expected
  <2>4. /\ Follows(p) /\ Follows(q)
        /\ BeginsBehind(p) => log[n].certMode
        /\ BeginsBehind(q) => CertBefore(a, 1)
    BY <2>2, <2>3 DEF CertInv, CertOf, HeldFollows, CallsFollow
  <2>5. CertBefore(a, 1) => HeldInCert(n)
    BY <2>2 DEF CertBefore
  <2>6. p \in Seq(Output) /\ q \in Seq(Output)
    BY DataFacts
  <2>7. HeldInCert(n) => (Len(p) > 0 => EndsInCert(p)) /\ (Len(p) = 0 => log[n].certMode)
    BY <2>6 DEF HeldInCert, EndsInCert
  <2> HIDE DEF n, p, q
  <2>8. Follows(p \o q) /\ (BeginsBehind(p \o q) => log[n].certMode)
    BY <2>4, <2>5, <2>6, <2>7, ConcatFollows
  <2> QED
    BY <2>8 DEF n, p, q
<1> QED
  BY <1>4, DataFacts DEF Piece

\* The processes a piece is given up for, or mixed up for, have written it.
LEMMA MixedFacts ==
  ASSUME NEW n, NEW chunk, Piece(n, chunk)
  PROVE  MixedUp(n, chunk) \subseteq Expected /\ Swallowed(n, chunk) \subseteq Expected
<1>1. \A i \in DOMAIN chunk : chunk[i].by \in Expected
  BY DEF Piece, WrittenBy, Live
<1>2. MixedUp(n, chunk) \subseteq Expected
  BY <1>1 DEF MixedUp
<1>3. Prompts(chunk) \subseteq Expected
  <2>1. 2 .. Len(chunk) \subseteq DOMAIN chunk
    BY DEF Piece
  <2> QED
    BY <1>1, <2>1 DEF Prompts
<1>4. \A line : Writers(chunk, line) \subseteq Expected
  BY <1>1 DEF Writers
<1> QED
  BY <1>2, <1>3, <1>4 DEF Swallowed

\* Either a piece is processed under a name, or nothing happens to the name but
\* that output is collected.
Closed(n) == \E a \in Started : NameOf(a) = n /\ ProcFinished(a)

Processed(n, chunk) ==
  /\ Piece(n, chunk)
  /\ EmittedBy(n, chunk) \subseteq shown'
  /\ MixedUp(n, chunk) \subseteq mixed' /\ Swallowed(n, chunk) \subseteq swallowed'
  /\ pending'[n] = <<>>
  /\ log'[n] = LogAfter(n, chunk) \/ (log'[n] = NoLog /\ Closed(n))

Work ==
  /\ \A s \in shown' : s \in shown \/ \E n \in Names : \E chunk \in Seq(Output) :
                                        Processed(n, chunk) /\ s \in EmittedBy(n, chunk)
  /\ mixed \subseteq mixed' /\ mixed' \subseteq mixed \union Expected
  /\ swallowed \subseteq swallowed' /\ swallowed' \subseteq swallowed \union Expected
  /\ opened' \in [Attempts -> Nat]
  /\ \A b \in Attempts :
       \/ opened'[b] = opened[b]
       \/ /\ opened'[b] = opened[b] + 1
          /\ \E n \in Names : \E chunk \in Seq(Output) :
               /\ Processed(n, chunk) /\ log[n].proc = b
               /\ Verdict(n, chunk) = "passed" /\ WantsBrowser(n, chunk)
  /\ log' \in [Names -> Logs] /\ pending' \in [Names -> Seq(Output)]
  /\ \A n \in Names :
       \/ log'[n] = log[n] /\ Piece(n, pending'[n])
       \/ \E chunk \in Seq(Output) : Processed(n, chunk)

\* Counting one of a process.
LEMMA Counted ==
  ASSUME NEW f \in [Attempts -> Nat], NEW p
  PROVE  LET g == [f EXCEPT ![p] = @ + 1] IN
         /\ g \in [Attempts -> Nat]
         /\ \A b \in Attempts : g[b] = f[b] \/ (g[b] = f[b] + 1 /\ b = p)
<1> DEFINE g == [f EXCEPT ![p] = @ + 1]
<1>1. CASE p \in Attempts
  <2>1. f[p] + 1 \in Nat
    BY <1>1
  <2>2. g \in [Attempts -> Nat] /\ g[p] = f[p] + 1 /\ \A b \in Attempts \ {p} : g[b] = f[b]
    BY <1>1, <2>1
  <2> QED
    BY <2>2
<1>2. CASE p \notin Attempts
  BY <1>2
<1> QED
  BY <1>1, <1>2

\* The three that process output do.
LEMMA OnePiece ==
  ASSUME LoggerTypeOK, LogInv, CertInv, OverlapInv, NEW n \in Names, NEW chunk, Piece(n, chunk),
         ProcessOutput(n, chunk), NEW next, log' = [log EXCEPT ![n] = next],
         next = LogAfter(n, chunk) \/ (next = NoLog /\ Closed(n)),
         pending' = [pending EXCEPT ![n] = <<>>]
  PROVE  Work
<1>1. /\ log \in [Names -> Logs] /\ pending \in [Names -> Seq(Output)]
      /\ opened \in [Attempts -> Nat] /\ chunk \in Seq(Output)
  BY TypeParts DEF InnerTypes, Piece
<1>2. next \in Logs
  BY <1>1, LogAfterFacts, NoLogType
<1>3. log' \in [Names -> Logs] /\ log'[n] = next /\ \A m \in Names \ {n} : log'[m] = log[m]
  BY <1>1, <1>2
<1>4. /\ pending' \in [Names -> Seq(Output)] /\ pending'[n] = <<>>
      /\ \A m \in Names \ {n} : pending'[m] = pending[m]
  <2>1. <<>> \in Seq(Output)
    OBVIOUS
  <2> QED
    BY <1>1, <2>1
<1>5. /\ shown' = shown \union EmittedBy(n, chunk) /\ mixed' = mixed \union MixedUp(n, chunk)
      /\ swallowed' = swallowed \union Swallowed(n, chunk)
      /\ opened' = IF Verdict(n, chunk) = "passed" /\ WantsBrowser(n, chunk)
                   THEN [opened EXCEPT ![log[n].proc] = @ + 1] ELSE opened
  BY DEF ProcessOutput
<1>6. Processed(n, chunk)
  BY <1>3, <1>4, <1>5 DEF Processed
<1>7. \A m \in Names \ {n} : log'[m] = log[m] /\ Piece(m, pending'[m])
  BY <1>3, <1>4, PendingPiece
<1>8. /\ opened' \in [Attempts -> Nat]
      /\ \A b \in Attempts :
           \/ opened'[b] = opened[b]
           \/ /\ opened'[b] = opened[b] + 1 /\ log[n].proc = b
              /\ Verdict(n, chunk) = "passed" /\ WantsBrowser(n, chunk)
  <2>1. CASE Verdict(n, chunk) = "passed" /\ WantsBrowser(n, chunk)
    <3>1. opened' = [opened EXCEPT ![log[n].proc] = @ + 1]
      BY <1>5, <2>1
    <3> QED
      BY <1>1, <2>1, <3>1, Counted
  <2>2. CASE ~(Verdict(n, chunk) = "passed" /\ WantsBrowser(n, chunk))
    BY <1>1, <1>5, <2>2
  <2> QED
    BY <2>1, <2>2
<1>9. /\ mixed \subseteq mixed' /\ mixed' \subseteq mixed \union Expected
      /\ swallowed \subseteq swallowed' /\ swallowed' \subseteq swallowed \union Expected
  BY <1>5, MixedFacts
<1>10. \A s \in shown' : s \in shown \/ (Processed(n, chunk) /\ s \in EmittedBy(n, chunk))
  BY <1>5, <1>6
<1>11. \A m \in Names : \/ log'[m] = log[m] /\ Piece(m, pending'[m])
                        \/ \E c \in Seq(Output) : Processed(m, c)
  BY <1>1, <1>6, <1>7
<1>12. \A b \in Attempts :
         \/ opened'[b] = opened[b]
         \/ /\ opened'[b] = opened[b] + 1
            /\ \E m \in Names : \E c \in Seq(Output) :
                 /\ Processed(m, c) /\ log[m].proc = b
                 /\ Verdict(m, c) = "passed" /\ WantsBrowser(m, c)
  BY <1>1, <1>6, <1>8
<1>13. \A s \in shown' : s \in shown \/ \E m \in Names : \E c \in Seq(Output) :
                                          Processed(m, c) /\ s \in EmittedBy(m, c)
  BY <1>1, <1>10
<1> QED
  BY <1>3, <1>4, <1>8, <1>9, <1>11, <1>12, <1>13 DEF Work

LEMMA FlushWorks ==
  ASSUME LoggerTypeOK, LogInv, CertInv, OverlapInv, FlushPending
  PROVE  Work
<1>1. /\ log \in [Names -> Logs] /\ pending \in [Names -> Seq(Output)]
      /\ opened \in [Attempts -> Nat]
  BY TypeParts DEF InnerTypes
<1>2. /\ pending' = [n \in Names |-> <<>>]
      /\ shown' = shown \union UNION {EmittedBy(n, pending[n]) : n \in Names}
      /\ log' = [n \in Names |-> LogAfter(n, pending[n])]
      /\ mixed' = mixed \union UNION {MixedUp(n, pending[n]) : n \in Names}
      /\ swallowed' = swallowed \union UNION {Swallowed(n, pending[n]) : n \in Names}
  BY DEF FlushPending
<1>3. \A n \in Names : LogAfter(n, pending[n]) \in Logs
  BY <1>1, LogAfterFacts
<1>4. log' \in [Names -> Logs] /\ \A n \in Names : log'[n] = LogAfter(n, pending[n])
  BY <1>2, <1>3
<1>5. pending' \in [Names -> Seq(Output)] /\ \A n \in Names : pending'[n] = <<>>
  <2>1. <<>> \in Seq(Output)
    OBVIOUS
  <2> QED
    BY <1>2, <2>1
<1>6. \A n \in Names : Processed(n, pending[n])
  BY <1>2, <1>4, <1>5, PendingPiece DEF Processed
<1>7. \A n \in Names : /\ MixedUp(n, pending[n]) \subseteq Expected
                       /\ Swallowed(n, pending[n]) \subseteq Expected
  BY PendingPiece, MixedFacts
<1>8. /\ opened' \in [Attempts -> Nat]
      /\ \A b \in Attempts :
           \/ opened'[b] = opened[b]
           \/ /\ opened'[b] = opened[b] + 1
              /\ \E n \in Names : /\ log[n].proc = b /\ Verdict(n, pending[n]) = "passed"
                                  /\ WantsBrowser(n, pending[n])
  <2> DEFINE Cue(b) == \E n \in Names : /\ log[n].proc = b
                                        /\ Verdict(n, pending[n]) = "passed"
                                        /\ WantsBrowser(n, pending[n])
  <2>1. opened' = [b \in Attempts |-> opened[b] + (IF Cue(b) THEN 1 ELSE 0)]
    BY Zenon DEF FlushPending
  <2> HIDE DEF Cue
  <2>2. /\ opened' \in [Attempts -> Nat]
        /\ \A b \in Attempts : opened'[b] = opened[b] \/ (opened'[b] = opened[b] + 1 /\ Cue(b))
    BY <1>1, <2>1
  <2> QED
    BY <2>2 DEF Cue
<1>9. \A s \in shown' : s \in shown \/ \E n \in Names : s \in EmittedBy(n, pending[n])
  BY <1>2
<1>10. /\ mixed \subseteq mixed' /\ mixed' \subseteq mixed \union Expected
       /\ swallowed \subseteq swallowed' /\ swallowed' \subseteq swallowed \union Expected
  BY <1>2, <1>7
<1>11. \A n \in Names : pending[n] \in Seq(Output)
  BY <1>1
<1>12. \A b \in Attempts :
         \/ opened'[b] = opened[b]
         \/ /\ opened'[b] = opened[b] + 1
            /\ \E n \in Names : \E chunk \in Seq(Output) :
                 /\ Processed(n, chunk) /\ log[n].proc = b
                 /\ Verdict(n, chunk) = "passed" /\ WantsBrowser(n, chunk)
  BY <1>6, <1>8, <1>11
<1>13. \A s \in shown' : s \in shown \/ \E n \in Names : \E chunk \in Seq(Output) :
                                          Processed(n, chunk) /\ s \in EmittedBy(n, chunk)
  BY <1>6, <1>9, <1>11
<1> QED
  BY <1>4, <1>5, <1>6, <1>8, <1>10, <1>11, <1>12, <1>13 DEF Work

LEMMA LoggerWorks ==
  ASSUME LoggerTypeOK, QueueInv, LogInv, CertInv, OverlapInv,
         (\E a \in Started : LogVPNData(a) \/ ProcFinished(a)) \/ FlushPending
  PROVE  Work
<1>1. ASSUME NEW a \in Started, LogVPNData(a) PROVE Work
  <2> DEFINE n == NameOf(a)
             data == pending[n] \o calls[1].data
  <2>1. n \in Names /\ data = pending[n] \o Head(calls).data /\ Piece(n, data)
    BY <1>1, DataFacts, DataPiece
  <2>2. CASE Len(data) >= Full
    <3>1. /\ ProcessOutput(n, data) /\ log' = [log EXCEPT ![n] = LogAfter(n, data)]
          /\ pending' = [pending EXCEPT ![n] = <<>>]
      BY <1>1, <2>1, <2>2 DEF LogVPNData
    <3> HIDE DEF n, data
    <3> QED
      BY <2>1, <3>1, OnePiece
  <2>3. CASE ~(Len(data) >= Full)
    <3>1. /\ pending' = [pending EXCEPT ![n] = data]
          /\ UNCHANGED <<log, shown, opened, mixed, swallowed>>
      BY <1>1, <2>1, <2>3 DEF LogVPNData
    <3>2. /\ log \in [Names -> Logs] /\ pending \in [Names -> Seq(Output)]
          /\ opened \in [Attempts -> Nat] /\ data \in Seq(Output)
      BY <2>1, TypeParts DEF InnerTypes, Piece
    <3> HIDE DEF n, data
    <3>3. /\ pending' \in [Names -> Seq(Output)] /\ pending'[n] = data
          /\ \A m \in Names \ {n} : pending'[m] = pending[m]
      BY <2>1, <3>1, <3>2
    <3>4. \A m \in Names : Piece(m, pending'[m])
      BY <2>1, <3>3, PendingPiece
    <3> QED
      BY <3>1, <3>2, <3>3, <3>4 DEF Work
  <2> QED
    BY <2>2, <2>3
<1>2. ASSUME NEW a \in Started, ProcFinished(a) PROVE Work
  <2>1. NameOf(a) \in Names
    BY AttemptTypes
  <2>2. /\ ProcessOutput(NameOf(a), pending[NameOf(a)])
        /\ pending' = [pending EXCEPT ![NameOf(a)] = <<>>]
        /\ log' = [log EXCEPT ![NameOf(a)] = NoLog]
    BY <1>2 DEF ProcFinished
  <2>3. Piece(NameOf(a), pending[NameOf(a)]) /\ Closed(NameOf(a))
    BY <1>2, <2>1, PendingPiece DEF Closed
  <2> QED
    BY <2>1, <2>2, <2>3, OnePiece
<1> QED
  BY <1>1, <1>2, FlushWorks

-----------------------------------------------------------------------------
(* The processes and the main thread, and the logger thread.               *)

Outside == \/ \E n \in Names : StartVPN(n)
           \/ \E a \in Started : ProcessAction(a) \/ ReadyRead(a) \/ Finished(a)
           \/ UNCHANGED vars

Processes == (\E a \in Started : LogVPNData(a) \/ ProcFinished(a)) \/ FlushPending

LEMMA TwoSides ==
  ASSUME [Next]_vars
  PROVE  Outside \/ (\E a \in Started : AddVPN(a)) \/ Processes
BY Steps DEF Outside, Processes

\* What the logger keeps, and expects, changes in its own thread only.
LEMMA OutsideFacts ==
  ASSUME LoggerTypeOK, QueueInv, Outside
  PROVE  /\ UNCHANGED <<keptVars, handled>> /\ shown' \subseteq shown
         /\ Started \subseteq Started'
         /\ \A b \in Started : NameOf(b)' = NameOf(b)
         /\ lost \subseteq lost' /\ Expected' = Expected
         /\ \A n \in Names : Live(n)' = Live(n)
         /\ (\A b \in Started : last'[b] = last[b]) \/ (\E a \in Started : ProcessAction(a))
<1> DEFINE Kept == /\ UNCHANGED <<keptVars, handled>> /\ shown' \subseteq shown
                   /\ Started \subseteq Started'
                   /\ \A b \in Started : NameOf(b)' = NameOf(b)
                   /\ (\A b \in Started : last'[b] = last[b]) \/ (\E a \in Started : ProcessAction(a))
                   /\ \/ lost' = lost
                      \/ \E a : lost' = lost \union {a} /\ a \notin heard
<1>0. heard \subseteq Started
  BY DEF QueueInv
<1>1. ASSUME NEW n \in Names, StartVPN(n) PROVE Kept
  <2>1. Len(started) + 1 \notin heard
    BY <1>0, <1>1, StartFacts
  <2>2. /\ Started \subseteq Started' /\ \A b \in Started : NameOf(b)' = NameOf(b)
        /\ lost' = lost \/ lost' = lost \union {Len(started) + 1}
    BY <1>1, StartFacts
  <2>3. UNCHANGED <<last, keptVars, shown, handled>>
    BY <1>1, Frames DEF loggerVars, keptVars
  <2> QED
    BY <2>1, <2>2, <2>3
<1>2. ASSUME NEW a \in Started, ProcessAction(a) PROVE Kept
  BY <1>2, Frames DEF Started, NameOf
<1>3. ASSUME NEW a \in Started, ReadyRead(a) \/ Finished(a) PROVE Kept
  <2>1. UNCHANGED <<started, last, keptVars, shown, handled>>
    BY <1>3, Frames DEF loggerVars, keptVars
  <2>2. lost' = lost \/ (lost' = lost \union {a} /\ a \notin heard)
    BY <1>3 DEF ReadyRead, Finished
  <2> QED
    BY <2>1, <2>2 DEF Started, NameOf
<1>4. ASSUME UNCHANGED vars PROVE Kept
  BY <1>4 DEF vars, processVars, loggerVars, keptVars, Started, NameOf
<1>5. Kept
  BY <1>1, <1>2, <1>3, <1>4 DEF Outside
<1>6. Expected' = Expected
  BY <1>5 DEF Expected, keptVars
<1>7. \A n \in Names : Live(n)' = Live(n)
  BY <1>0, <1>5, <1>6 DEF Live, Expected
<1> QED
  BY <1>5, <1>6, <1>7

LEMMA InsideFacts ==
  ASSUME (\E a \in Started : AddVPN(a)) \/ Processes
  PROVE  /\ UNCHANGED <<started, child, last, printed, certFailed, buffer, arrived, lost>>
         /\ Started' = Started /\ \A b : NameOf(b)' = NameOf(b)
<1>1. UNCHANGED <<processVars, mainVars, lost>>
  BY Frames DEF Processes
<1> QED
  BY <1>1 DEF processVars, mainVars, Started, NameOf

LEMMA EndFacts ==
  ASSUME LoggerTypeOK, QueueInv, NEW a, ProcFinished(a)
  PROVE  /\ handled' = handled \union {a} /\ a \in Expected /\ child[a] = "gone"
         /\ \A i \in DOMAIN calls' : calls'[i].do = "add" \/ calls'[i].of # a
<1>1. Call("finished", a)
  BY DEF ProcFinished
<1>2. 1 \in DOMAIN calls /\ calls[1].do = "finished" /\ calls[1].of = a
  BY <1>1, CallFacts
<1>3. a \in Expected /\ child[a] = "gone"
  BY <1>2 DEF QueueInv
<1>4. \A i \in DOMAIN calls' : i + 1 \in DOMAIN calls /\ 1 < i + 1 /\ calls'[i] = calls[i + 1]
  BY <1>1, CallFacts
<1>5. \A i \in DOMAIN calls' : calls'[i].do = "add" \/ calls'[i].of # a
  BY <1>2, <1>4 DEF QueueInv
<1> QED
  BY <1>3, <1>5 DEF ProcFinished

\* The end of a process is the last the logger expects to hear of it.
LEMMA ProcessesFacts ==
  ASSUME LoggerTypeOK, QueueInv, Processes
  PROVE  /\ UNCHANGED <<heard, overlapped>>
         /\ \/ UNCHANGED handled
            \/ \E a \in Expected : handled' = handled \union {a} /\ ProcFinished(a)
         /\ handled \subseteq handled' /\ Expected' \subseteq Expected
         /\ timer' \in BOOLEAN
         /\ cut' \subseteq cut \union Started
<1>0. InnerTypes
  BY TypeParts
<1>1. ASSUME NEW a \in Started, LogVPNData(a)
      PROVE  /\ UNCHANGED <<heard, overlapped, handled, lost>> /\ timer' \in BOOLEAN
             /\ cut' \subseteq cut \union Started
  <2>1. timer' = timer \/ timer' = TRUE
    BY <1>1 DEF LogVPNData
  <2>2. cut' = cut \/ cut' = cut \union {a}
    BY <1>1 DEF LogVPNData
  <2>3. UNCHANGED <<heard, overlapped, handled, lost>>
    BY <1>1 DEF LogVPNData
  <2> QED
    BY <1>0, <2>1, <2>2, <2>3 DEF InnerTypes
<1>2. ASSUME NEW a \in Started, ProcFinished(a)
      PROVE  /\ UNCHANGED <<heard, overlapped, timer, cut, lost>>
             /\ handled' = handled \union {a} /\ a \in Expected
  BY <1>2, EndFacts DEF ProcFinished
<1>3. ASSUME FlushPending
      PROVE  UNCHANGED <<heard, overlapped, cut, handled, lost>> /\ timer' \in BOOLEAN
  BY <1>3, Zenon DEF FlushPending
<1>4. UNCHANGED lost /\ UNCHANGED <<heard, overlapped>>
  BY <1>1, <1>2, <1>3, InsideFacts DEF Processes
<1>5. \/ UNCHANGED handled
      \/ \E a \in Expected : handled' = handled \union {a} /\ ProcFinished(a)
  BY <1>1, <1>2, <1>3 DEF Processes
<1>6. handled \subseteq handled' /\ Expected' \subseteq Expected
  BY <1>4, <1>5 DEF Expected
<1>7. timer' \in BOOLEAN /\ cut' \subseteq cut \union Started
  BY <1>0, <1>1, <1>2, <1>3 DEF Processes, InnerTypes
<1> QED
  BY <1>4, <1>5, <1>6, <1>7

\* What addVPN() does.
LEMMA AddFacts ==
  ASSUME LoggerTypeOK, QueueInv, NEW a \in Started, AddVPN(a)
  PROVE  /\ UNCHANGED <<pending, timer, shown, opened, cut, mixed, swallowed, handled, lost>>
         /\ a \notin heard /\ heard' = heard \union {a}
         /\ \A b \in Started : b < a => b \in heard
         /\ \A b \in heard : b < a
         /\ NameOf(a) \in Names
         /\ overlapped \subseteq overlapped' /\ overlapped' \subseteq Started
         /\ \A b \in Expected : NameOf(b) = NameOf(a) => {a, b} \subseteq overlapped'
         /\ log' \in [Names -> Logs]
         /\ \A n \in Names \ {NameOf(a)} : log'[n] = log[n]
         /\ LET l == log'[NameOf(a)] IN
            /\ l.open /\ l.proc = a /\ ~l.certMode /\ l.certBuffer = <<>>
            /\ l.saml = log[NameOf(a)].saml
<1>0. InnerTypes /\ Started \subseteq Attempts /\ NameOf(a) \in Names
  BY TypeParts, AttemptTypes
<1>1. Call("add", a)
  BY DEF AddVPN
<1>2. 1 \in DOMAIN calls /\ calls[1].do = "add" /\ calls[1].of = a /\ DOMAIN calls = 1 .. Len(calls)
  BY <1>1, CallFacts
<1>3. a \notin heard /\ heard \subseteq Started
  BY <1>2 DEF QueueInv
<1>4. ASSUME NEW b \in Started, b < a PROVE b \in heard
  <2>1. SUFFICES ASSUME b \notin heard PROVE FALSE
    OBVIOUS
  <2>2. PICK i \in DOMAIN calls : calls[i].do = "add" /\ calls[i].of = b
    BY <2>1 DEF QueueInv
  <2>3. i = 1 \/ 1 < i
    BY <1>2
  <2>4. 1 < i => a < b
    BY <1>2, <2>2 DEF QueueInv
  <2>5. a \in Int /\ b \in Int
    BY <1>0 DEF Attempts
  <2> QED
    BY <1>2, <1>4, <2>2, <2>3, <2>4, <2>5
<1>5. ASSUME NEW b \in heard PROVE b < a
  <2>1. a < b => a \in heard
    BY DEF QueueInv
  <2>2. a \in Int /\ b \in Int
    BY <1>0, <1>3 DEF Attempts
  <2> QED
    BY <1>3, <2>1, <2>2
<1>6. /\ heard' = heard \union {a}
      /\ UNCHANGED <<pending, timer, shown, opened, cut, mixed, swallowed, handled, lost>>
      /\ overlapped' = IF Before(a) = {} THEN overlapped
                       ELSE overlapped \union Before(a) \union {a}
  BY DEF AddVPN
<1>7. overlapped \subseteq overlapped' /\ overlapped' \subseteq Started
  BY <1>0, <1>6 DEF InnerTypes, Before
<1>8. ASSUME NEW b \in Expected, NameOf(b) = NameOf(a) PROVE {a, b} \subseteq overlapped'
  <2>1. b \in Before(a)
    BY <1>3, <1>5, <1>8 DEF Before, Expected
  <2> QED
    BY <1>6, <2>1
<1>9. /\ log' \in [Names -> Logs]
      /\ \A n \in Names \ {NameOf(a)} : log'[n] = log[n]
      /\ LET l == log'[NameOf(a)] IN
         /\ l.open /\ l.proc = a /\ ~l.certMode /\ l.certBuffer = <<>>
         /\ l.saml = log[NameOf(a)].saml
  <2> DEFINE l == [log[NameOf(a)] EXCEPT !.open = TRUE, !.proc = a,
                                         !.certMode = FALSE, !.certBuffer = <<>>]
  <2>1. log' = [log EXCEPT ![NameOf(a)] = l]
    BY DEF AddVPN
  <2>2. log \in [Names -> Logs] /\ log[NameOf(a)] \in Logs /\ a \in Attempts
    BY <1>0 DEF InnerTypes
  <2>3. <<>> \in Seq(Output)
    OBVIOUS
  <2>4. /\ l \in Logs /\ l.open /\ l.proc = a /\ ~l.certMode /\ l.certBuffer = <<>>
        /\ l.saml = log[NameOf(a)].saml
    BY <2>2, <2>3 DEF Logs
  <2> HIDE DEF l
  <2> QED
    BY <1>0, <2>1, <2>2, <2>4
<1> QED
  BY <1>0, <1>3, <1>4, <1>5, <1>6, <1>7, <1>8, <1>9

LEMMA InnerStep ==
  ASSUME LoggerTypeOK, QueueInv, LogInv, CertInv, OverlapInv, [Next]_vars
  PROVE  InnerTypes'
<1>0. InnerTypes /\ Started \subseteq Attempts /\ heard \subseteq Started
  BY TypeParts, AttemptTypes DEF QueueInv
<1>1. ASSUME Outside PROVE InnerTypes'
  <2>1. UNCHANGED <<keptVars, handled>> /\ shown' \subseteq shown /\ Started \subseteq Started'
    BY <1>1, OutsideFacts
  <2> QED
    BY <1>0, <2>1 DEF InnerTypes, keptVars
<1>2. ASSUME NEW a \in Started, AddVPN(a) PROVE InnerTypes'
  <2>1. Started' = Started
    BY <1>2, InsideFacts
  <2>2. /\ UNCHANGED <<pending, timer, shown, opened, cut, mixed, swallowed, handled>>
        /\ heard' = heard \union {a} /\ overlapped' \subseteq Started
        /\ log' \in [Names -> Logs]
    BY <1>2, AddFacts
  <2> QED
    BY <1>0, <2>1, <2>2 DEF InnerTypes
<1>3. ASSUME Processes PROVE InnerTypes'
  <2>1. Started' = Started
    BY <1>3, InsideFacts
  <2>2. /\ UNCHANGED <<heard, overlapped>> /\ timer' \in BOOLEAN
        /\ cut' \subseteq cut \union Started
        /\ handled' = handled \/ \E a \in Expected : handled' = handled \union {a}
    BY <1>3, ProcessesFacts
  <2>3. Work
    BY <1>3, LoggerWorks DEF Processes
  <2>4. shown' \subseteq Signals
    <3> SUFFICES ASSUME NEW s \in shown' PROVE s \in Signals
      OBVIOUS
    <3>1. CASE s \in shown
      BY <1>0, <3>1 DEF InnerTypes
    <3>2. ASSUME NEW n \in Names, NEW chunk \in Seq(Output), s \in EmittedBy(n, chunk)
          PROVE  s \in Signals
      <4>1. /\ log[n].open /\ s.to = log[n].proc
            /\ \/ \E i \in DOMAIN chunk : s.from = chunk[i].by
               \/ \E i \in DOMAIN log[n].certBuffer : s.from = log[n].certBuffer[i].by
            /\ s.kind \in {"error", "auth", "denied", "saml", "prompt", "cert"}
            /\ s = [kind |-> s.kind, from |-> s.from, to |-> s.to]
        BY <3>2, EmittedFacts
      <4>2. s.to \in Attempts
        BY <1>0, <4>1 DEF LogInv
      <4>3. log[n].certBuffer \in Seq(Output)
        BY <1>0 DEF InnerTypes, Logs
      <4>4. \A o \in Output : o.by \in Attempts
        BY DEF Output
      <4>5. s.from \in Attempts
        <5>1. CASE \E i \in DOMAIN chunk : s.from = chunk[i].by
          BY <4>4, <5>1
        <5>2. CASE \E i \in DOMAIN log[n].certBuffer : s.from = log[n].certBuffer[i].by
          BY <4>3, <4>4, <5>2
        <5> QED
          BY <4>1, <5>1, <5>2
      <4> QED
        BY <4>1, <4>2, <4>5 DEF Signals
    <3> QED
      BY <2>3, <3>1, <3>2 DEF Work
  <2>5. mixed' \subseteq Started /\ swallowed' \subseteq Started /\ handled' \subseteq Started
    BY <1>0, <2>2, <2>3 DEF Work, InnerTypes, Expected
  <2>6. /\ log' \in [Names -> Logs] /\ pending' \in [Names -> Seq(Output)]
        /\ opened' \in [Attempts -> Nat]
    BY <2>3 DEF Work
  <2> QED
    BY <1>0, <2>1, <2>2, <2>4, <2>5, <2>6 DEF InnerTypes
<1> QED
  BY <1>1, <1>2, <1>3, TwoSides

LEMMA ProcessStep ==
  ASSUME LoggerTypeOK, ProcessInv, QueueInv, [Next]_vars
  PROVE  ProcessInv'
<1>0. /\ child \in [Attempts -> {"none", "run", "wait", "ended", "gone"}]
      /\ buffer \in [Attempts -> Seq(Output)]
      /\ Started \subseteq Attempts /\ heard \subseteq Started
  BY TypeParts, AttemptTypes DEF OuterTypes, QueueInv
<1>1. ASSUME NEW n \in Names, StartVPN(n) PROVE ProcessInv'
  <2> DEFINE a == Len(started) + 1
  <2>1. /\ a \in Attempts /\ a \notin Started /\ Started' = Started \union {a}
        /\ \/ child' = [child EXCEPT ![a] = "run"] /\ lost' = lost
           \/ child' = [child EXCEPT ![a] = "gone"] /\ lost' = lost \union {a}
    BY <1>1, StartFacts
  <2>2. UNCHANGED <<buffer, arrived, heard, handled>>
    BY <1>1, Frames DEF mainVars, loggerVars
  <2> HIDE DEF a
  <2>3. \A b \in Attempts \ {a} : child'[b] = child[b]
    BY <1>0, <2>1
  <2>4. a \in lost' => a \in lost \/ child'[a] = "gone"
    BY <1>0, <2>1
  <2>5. lost \subseteq Started /\ handled \subseteq Started
    BY TypeParts DEF OuterTypes, InnerTypes
  <2>6. \A b \in handled' \union lost' : child'[b] = "gone"
    BY <1>0, <2>1, <2>2, <2>3, <2>4, <2>5 DEF ProcessInv
  <2>7. \A b \in arrived' : child'[b] # "gone" /\ buffer'[b] # <<>>
    BY <1>0, <2>1, <2>2, <2>3 DEF ProcessInv
  <2> QED
    BY <2>1, <2>2, <2>6, <2>7 DEF ProcessInv, WrittenBy
<1>2. ASSUME NEW a \in Started, ProcessAction(a) PROVE ProcessInv'
  <2>0. UNCHANGED <<started, handled, lost, heard>> /\ Started' = Started /\ a \in Attempts
    BY <1>0, <1>2, Frames DEF keptVars, Started
  <2>1. CASE ChildEnds(a) \/ Answer(a)
    <3>1. /\ UNCHANGED <<buffer, arrived>> /\ child[a] # "gone"
          /\ child' = [child EXCEPT ![a] = "ended"] \/ child' = [child EXCEPT ![a] = "run"]
      BY <2>1 DEF ChildEnds, Answer, mainVars
    <3>2. child'[a] # "gone" /\ \A b \in Attempts \ {a} : child'[b] = child[b]
      BY <1>0, <2>0, <3>1
    <3>3. handled \union lost \subseteq Started
      BY TypeParts DEF OuterTypes, InnerTypes
    <3>4. \A b \in handled \union lost : child'[b] = "gone"
      BY <1>0, <3>1, <3>2, <3>3 DEF ProcessInv
    <3>5. \A b \in arrived : child'[b] # "gone" /\ buffer[b] # <<>>
      BY <1>0, <3>1, <3>2 DEF ProcessInv
    <3> QED
      BY <2>0, <3>1, <3>4, <3>5 DEF ProcessInv, WrittenBy
  <2>2. ASSUME NEW l \in Lines, ChildPrints(a, l) PROVE ProcessInv'
    <3> DEFINE x == [by |-> a, line |-> l]
    <3>1. /\ child[a] = "run" /\ arrived' = arrived \union {a}
          /\ buffer' = [buffer EXCEPT ![a] = Append(@, x)]
          /\ child' = [child EXCEPT ![a] = IF l = "prompt" THEN "wait" ELSE "run"]
      BY <2>2 DEF ChildPrints
    <3>2. child'[a] # "gone" /\ \A b \in Attempts \ {a} : child'[b] = child[b]
      BY <1>0, <2>0, <3>1
    <3>3. x \in Output /\ x.by = a
      BY <2>0 DEF Output
    <3> HIDE DEF x
    <3>4. buffer'[a] # <<>> /\ WrittenBy(buffer'[a], {a})
      <4>1. WrittenBy(buffer[a], {a}) /\ buffer'[a] = Append(buffer[a], x)
        BY <1>0, <2>0, <3>1 DEF ProcessInv
      <4> QED
        BY <1>0, <2>0, <3>3, <4>1, AppendWritten
    <3>5. \A b \in Attempts \ {a} : buffer'[b] = buffer[b]
      BY <1>0, <3>1
    <3>6. handled \union lost \subseteq Started
      BY TypeParts DEF OuterTypes, InnerTypes
    <3>7. \A b \in handled \union lost : child'[b] = "gone"
      BY <1>0, <3>1, <3>2, <3>6 DEF ProcessInv
    <3>8. \A b \in arrived' : child'[b] # "gone" /\ buffer'[b] # <<>>
      BY <1>0, <3>1, <3>2, <3>4, <3>5 DEF ProcessInv
    <3>9. \A b \in Attempts : WrittenBy(buffer'[b], {b})
      BY <3>4, <3>5 DEF ProcessInv
    <3> QED
      BY <2>0, <3>1, <3>7, <3>8, <3>9 DEF ProcessInv, WrittenBy
  <2> QED
    BY <1>2, <2>1, <2>2 DEF ProcessAction
<1>3. ASSUME NEW a \in Started, ReadyRead(a) PROVE ProcessInv'
  <2>1. /\ UNCHANGED <<started, child, heard, handled, lost>> /\ arrived' = arrived \ {a}
        /\ buffer' = buffer \/ buffer' = [buffer EXCEPT ![a] = <<>>]
    BY <1>3 DEF ReadyRead, processVars, loggerVars
  <2>2. \A b \in Attempts : buffer'[b] = buffer[b] \/ (b = a /\ buffer'[b] = <<>>)
    BY <1>0, <2>1
  <2>3. \A b \in Attempts : WrittenBy(buffer'[b], {b})
    BY <2>2 DEF ProcessInv, WrittenBy
  <2>4. \A b \in arrived' : child[b] # "gone" /\ buffer'[b] # <<>>
    BY <1>0, <2>1, <2>2 DEF ProcessInv
  <2> QED
    BY <2>1, <2>3, <2>4 DEF ProcessInv, Started, WrittenBy
<1>4. ASSUME NEW a \in Started, Finished(a) PROVE ProcessInv'
  <2>1. /\ UNCHANGED <<started, buffer, arrived, heard, handled>> /\ a \notin arrived
        /\ child' = [child EXCEPT ![a] = "gone"]
        /\ lost' = lost \/ lost' = lost \union {a}
    BY <1>4 DEF Finished, mainVars, loggerVars
  <2>2. child'[a] = "gone" /\ \A b \in Attempts \ {a} : child'[b] = child[b]
    BY <1>0, <2>1
  <2>3. handled \union lost \subseteq Started
    BY TypeParts DEF OuterTypes, InnerTypes
  <2>4. \A b \in handled \union lost' : child'[b] = "gone"
    BY <1>0, <2>1, <2>2, <2>3 DEF ProcessInv
  <2>5. \A b \in arrived : child'[b] # "gone" /\ buffer[b] # <<>>
    BY <1>0, <2>1, <2>2 DEF ProcessInv
  <2> QED
    BY <2>1, <2>4, <2>5 DEF ProcessInv, Started, WrittenBy
<1>5. ASSUME (\E a \in Started : AddVPN(a)) \/ Processes PROVE ProcessInv'
  <2>1. UNCHANGED <<started, child, buffer, arrived, lost>> /\ Started' = Started
    BY <1>5, InsideFacts
  <2>2. CASE Processes
    <3>1. /\ UNCHANGED heard
          /\ handled' = handled \/ \E a \in Expected : handled' = handled \union {a} /\ ProcFinished(a)
      BY <2>2, ProcessesFacts
    <3>2. \A a : ProcFinished(a) => child[a] = "gone"
      BY EndFacts
    <3>3. handled' \subseteq heard /\ \A b \in handled' : child[b] = "gone"
      BY <3>1, <3>2 DEF ProcessInv, Expected
    <3> QED
      BY <2>1, <3>1, <3>3 DEF ProcessInv, WrittenBy
  <2>3. ASSUME NEW a \in Started, AddVPN(a) PROVE ProcessInv'
    <3>1. UNCHANGED handled /\ heard' = heard \union {a}
      BY <2>3, AddFacts
    <3> QED
      BY <2>1, <3>1 DEF ProcessInv, WrittenBy
  <2> QED
    BY <1>5, <2>2, <2>3
<1>6. ASSUME UNCHANGED vars PROVE ProcessInv'
  BY <1>6 DEF vars, processVars, mainVars, loggerVars, ProcessInv, WrittenBy, Started
<1> QED
  BY <1>1, <1>2, <1>3, <1>4, <1>5, <1>6, TwoSides DEF Outside

\* Every call in the queue is about a process that was started.
LEMMA CallsOfStarted ==
  ASSUME LoggerTypeOK
  PROVE  /\ DOMAIN calls = 1 .. Len(calls) /\ Len(calls) \in Nat
         /\ \A i \in DOMAIN calls : /\ calls[i].do \in {"add", "data", "finished"}
                                    /\ calls[i].of \in Started
                                    /\ calls[i].data \in Seq(Output)
<1>1. calls \in Seq(CallsOf(Started))
  BY TypeParts DEF OuterTypes
<1>2. \A i \in DOMAIN calls : calls[i] \in CallsOf(Started)
  BY <1>1
<1> QED
  BY <1>1, <1>2 DEF CallsOf

\* A call about an expected process takes its place at the end.
LEMMA PostStep ==
  ASSUME LoggerTypeOK, QueueInv, NEW do \in {"data", "finished"}, NEW a \in Expected,
         NEW data \in Seq(Output), calls' = Post(do, a, data),
         do = "data" => data # <<>> /\ WrittenBy(data, {a}),
         child[a] # "gone", do = "finished" => child'[a] = "gone",
         \A b \in Attempts \ {a} : child'[b] = child[b],
         UNCHANGED <<started, heard, handled, lost>>
  PROVE  QueueInv'
<1>0. Started' = Started /\ Expected' = Expected /\ Started \subseteq Attempts
  BY AttemptTypes DEF Started, Expected
<1>10. a \in heard /\ a \in Started /\ heard \subseteq Started
  BY DEF Expected, QueueInv
<1> DEFINE c == [do |-> do, of |-> a, data |-> data]
           z == Len(calls) + 1
<1>1. /\ DOMAIN calls = 1 .. Len(calls) /\ DOMAIN calls' = 1 .. z /\ Len(calls) \in Nat
      /\ \A i \in DOMAIN calls : calls'[i] = calls[i]
      /\ calls'[z] = c
  <2>1. /\ Len(calls) \in Nat /\ DOMAIN calls = 1 .. Len(calls)
        /\ DOMAIN calls' = 1 .. Len(calls) + 1
        /\ \A i \in 1 .. Len(calls) : calls'[i] = calls[i]
        /\ calls'[Len(calls) + 1] = c
    BY PostEnd
  <2> HIDE DEF c
  <2> QED
    BY <2>1
<1>2. c.do = do /\ c.of = a /\ c.data = data /\ do # "add" /\ Carries(c)
  BY DEF Carries
<1> HIDE DEF c
<1>3. \A i \in DOMAIN calls' : i \in DOMAIN calls \/ i = z
  BY <1>1
<1>4. \A i \in DOMAIN calls : i < z /\ i \in DOMAIN calls'
  BY <1>1
<1>5. \A i \in DOMAIN calls' : calls'[i].do = "add" => i \in DOMAIN calls /\ calls'[i] = calls[i]
  BY <1>1, <1>2, <1>3
<1>6. z \in DOMAIN calls'
  BY <1>1
<1> HIDE DEF z
<1>11. \A i \in DOMAIN calls' : calls'[i].do = "add" => calls'[i].of \notin heard
  BY <1>5 DEF QueueInv
<1>12. \A b \in Started \ heard : \E i \in DOMAIN calls' : calls'[i].do = "add" /\ calls'[i].of = b
  <2> TAKE b \in Started \ heard
  <2>1. PICK i \in DOMAIN calls : calls[i].do = "add" /\ calls[i].of = b
    BY DEF QueueInv
  <2> QED
    BY <1>1, <1>4, <2>1
<1>13. \A i, j \in DOMAIN calls' :
         i < j /\ calls'[i].do = "add" /\ calls'[j].do = "add" => calls'[i].of < calls'[j].of
  BY <1>5 DEF QueueInv
<1>14. \A i \in DOMAIN calls' : calls'[i].do # "add" => calls'[i].of \in Expected
  BY <1>1, <1>2, <1>3 DEF QueueInv
<1>15. \A i \in DOMAIN calls' : Carries(calls'[i])
  BY <1>1, <1>2, <1>3 DEF QueueInv
<1>16. ASSUME NEW i \in DOMAIN calls', calls'[i].do = "finished"
       PROVE  /\ child'[calls'[i].of] = "gone"
              /\ \A j \in DOMAIN calls' : i < j => calls'[j].do = "add" \/ calls'[j].of # calls'[i].of
  <2>1. CASE i = z
    <3>1. \A j \in DOMAIN calls' : ~(i < j)
      BY <1>1, <2>1 DEF z
    <3> QED
      BY <1>1, <1>2, <1>16, <2>1, <3>1
  <2>2. CASE i \in DOMAIN calls
    <3>1. calls'[i] = calls[i] /\ child[calls[i].of] = "gone" /\ calls[i].of \in Started
      BY <1>1, <1>16, <2>2, CallsOfStarted DEF QueueInv
    <3>2. calls[i].of # a
      BY <3>1
    <3>3. child'[calls[i].of] = "gone"
      BY <1>0, <3>1, <3>2
    <3>4. ASSUME NEW j \in DOMAIN calls', i < j
          PROVE  calls'[j].do = "add" \/ calls'[j].of # calls'[i].of
      <4>1. CASE j = z
        BY <1>1, <1>2, <3>1, <3>2, <4>1
      <4>2. CASE j \in DOMAIN calls
        BY <1>1, <1>16, <2>2, <3>1, <3>4, <4>2 DEF QueueInv
      <4> QED
        BY <1>3, <4>1, <4>2
    <3> QED
      BY <3>1, <3>3, <3>4
  <2> QED
    BY <1>3, <2>1, <2>2
<1>17. heard \subseteq Started /\ \A x \in heard, b \in Started : b < x => b \in heard
  BY DEF QueueInv
<1> QED
  BY <1>0, <1>11, <1>12, <1>13, <1>14, <1>15, <1>16, <1>17 DEF QueueInv, Carries, WrittenBy

\* The logger takes the first call.
LEMMA TakeStep ==
  ASSUME LoggerTypeOK, QueueInv, NEW do, NEW a, Call(do, a), UNCHANGED <<started, child>>,
         heard \subseteq heard', heard' \subseteq Started,
         \A x \in heard', b \in Started : b < x => b \in heard',
         \A b \in heard' : b \in heard \/ (do = "add" /\ b = a),
         do = "add" => a \in heard',
         \A b \in Expected : b \in Expected' \/ (do = "finished" /\ b = a)
  PROVE  QueueInv'
<1>0. Started' = Started
  BY DEF Started
<1>1. /\ calls[1].do = do /\ calls[1].of = a /\ 1 \in DOMAIN calls
      /\ DOMAIN calls = 1 .. Len(calls) /\ DOMAIN calls' = 1 .. Len(calls) - 1
      /\ Len(calls) \in Nat
      /\ \A i \in DOMAIN calls' : calls'[i] = calls[i + 1]
  BY CallFacts
<1>2. \A i \in DOMAIN calls' : i + 1 \in DOMAIN calls /\ 1 < i + 1 /\ calls'[i] = calls[i + 1]
  BY <1>1
<1>3. \A i \in DOMAIN calls : i = 1 \/ (i - 1 \in DOMAIN calls' /\ calls'[i - 1] = calls[i])
  BY <1>1
<1>4. \A i, j \in DOMAIN calls' : i < j => i + 1 < j + 1
  BY <1>1
<1>5. \A i \in DOMAIN calls : calls[i].of \in Started
  BY CallsOfStarted
<1>6. Started \subseteq Attempts /\ Attempts \subseteq Int
  BY AttemptTypes DEF Attempts
<1>11. ASSUME NEW i \in DOMAIN calls', calls'[i].do = "add" PROVE calls'[i].of \notin heard'
  <2>1. calls[i + 1].do = "add" /\ i + 1 \in DOMAIN calls /\ 1 < i + 1
    BY <1>2, <1>11
  <2>2. calls[i + 1].of \notin heard
    BY <2>1 DEF QueueInv
  <2>3. do = "add" => a < calls[i + 1].of
    BY <1>1, <2>1 DEF QueueInv
  <2>4. do = "add" => a # calls[i + 1].of
    <3>1. calls[i + 1].of \in Int
      BY <1>5, <1>6, <2>1
    <3> QED
      BY <2>3, <3>1
  <2> QED
    BY <1>2, <2>2, <2>4
<1>12. ASSUME NEW b \in Started \ heard'
       PROVE  \E i \in DOMAIN calls' : calls'[i].do = "add" /\ calls'[i].of = b
  <2>1. PICK i \in DOMAIN calls : calls[i].do = "add" /\ calls[i].of = b
    BY DEF QueueInv
  <2>2. CASE i = 1
    <3>1. b \notin heard /\ a = b /\ do = "add"
      BY <1>1, <2>1, <2>2
    <3> QED
      BY <3>1
  <2>3. CASE i # 1
    BY <1>3, <2>1, <2>3
  <2> QED
    BY <2>2, <2>3
<1>13. \A i, j \in DOMAIN calls' :
         i < j /\ calls'[i].do = "add" /\ calls'[j].do = "add" => calls'[i].of < calls'[j].of
  BY <1>2, <1>4 DEF QueueInv
<1>14. ASSUME NEW i \in DOMAIN calls', calls'[i].do # "add" PROVE calls'[i].of \in Expected'
  <2>1. calls[i + 1].do # "add" /\ i + 1 \in DOMAIN calls /\ 1 < i + 1
    BY <1>2, <1>14
  <2>2. calls[i + 1].of \in Expected
    BY <2>1 DEF QueueInv
  <2>3. do = "finished" => calls[i + 1].of # a
    BY <1>1, <2>1 DEF QueueInv
  <2> QED
    BY <1>2, <2>2, <2>3
<1>15. \A i \in DOMAIN calls' : Carries(calls'[i])
  BY <1>2 DEF QueueInv
<1>16. \A i \in DOMAIN calls' : calls'[i].do = "finished" =>
         /\ child'[calls'[i].of] = "gone"
         /\ \A j \in DOMAIN calls' : i < j => calls'[j].do = "add" \/ calls'[j].of # calls'[i].of
  BY <1>2, <1>4 DEF QueueInv
<1> QED
  BY <1>0, <1>11, <1>12, <1>13, <1>14, <1>15, <1>16 DEF QueueInv, Carries, WrittenBy

LEMMA QueueStep ==
  ASSUME LoggerTypeOK, ProcessInv, QueueInv, [Next]_vars
  PROVE  QueueInv'
<1>0. /\ child \in [Attempts -> {"none", "run", "wait", "ended", "gone"}]
      /\ buffer \in [Attempts -> Seq(Output)]
      /\ Started \subseteq Attempts /\ Attempts \subseteq Int /\ heard \subseteq Started
      /\ \A x \in heard, b \in Started : b < x => b \in heard
  BY TypeParts, AttemptTypes DEF OuterTypes, QueueInv, Attempts
<1>1. ASSUME NEW n \in Names, StartVPN(n) PROVE QueueInv'
  <2> DEFINE a == Len(started) + 1
             z == Len(calls) + 1
  <2>1. /\ a \in Attempts /\ a \notin Started /\ \A b \in Started : b < a
        /\ Started' = Started \union {a} /\ calls' = Post("add", a, <<>>)
        /\ child' = [child EXCEPT ![a] = "run"] \/ child' = [child EXCEPT ![a] = "gone"]
    BY <1>1, StartFacts
  <2>2. UNCHANGED heard /\ Expected' = Expected
    BY <1>1, OutsideFacts DEF Outside, keptVars
  <2> HIDE DEF a
  <2>3. /\ DOMAIN calls = 1 .. Len(calls) /\ DOMAIN calls' = 1 .. z /\ Len(calls) \in Nat
        /\ \A i \in DOMAIN calls : calls'[i] = calls[i]
        /\ calls'[z] = [do |-> "add", of |-> a, data |-> <<>>]
    <3>1. /\ Len(calls) \in Nat /\ DOMAIN calls = 1 .. Len(calls)
          /\ DOMAIN calls' = 1 .. Len(calls) + 1
          /\ \A i \in 1 .. Len(calls) : calls'[i] = calls[i]
          /\ calls'[Len(calls) + 1] = [do |-> "add", of |-> a, data |-> <<>>]
      BY <2>1, PostEnd
    <3> QED
      BY <3>1
  <2>4. calls'[z].do = "add" /\ calls'[z].of = a /\ z \in DOMAIN calls'
    BY <2>3
  <2>5. /\ \A i \in DOMAIN calls' : i \in DOMAIN calls \/ i = z
        /\ \A i \in DOMAIN calls : i < z /\ i \in DOMAIN calls' /\ calls[i].of \in Started
        /\ \A i \in DOMAIN calls' : ~(z < i)
    BY <2>3, CallsOfStarted
  <2> HIDE DEF z
  <2>11. \A i \in DOMAIN calls' : calls'[i].do = "add" => calls'[i].of \notin heard
    BY <1>0, <2>1, <2>3, <2>4, <2>5 DEF QueueInv
  <2>12. ASSUME NEW b \in Started' \ heard
         PROVE  \E i \in DOMAIN calls' : calls'[i].do = "add" /\ calls'[i].of = b
    <3>1. CASE b = a
      BY <2>4, <3>1
    <3>2. CASE b # a
      <4>1. PICK i \in DOMAIN calls : calls[i].do = "add" /\ calls[i].of = b
        BY <2>1, <3>2 DEF QueueInv
      <4> QED
        BY <2>3, <2>5, <4>1
    <3> QED
      BY <3>1, <3>2
  <2>13. \A i, j \in DOMAIN calls' :
           i < j /\ calls'[i].do = "add" /\ calls'[j].do = "add" => calls'[i].of < calls'[j].of
    BY <2>1, <2>3, <2>4, <2>5 DEF QueueInv
  <2>14. \A i \in DOMAIN calls' : calls'[i].do # "add" => calls'[i].of \in Expected
    BY <2>3, <2>4, <2>5 DEF QueueInv
  <2>15. \A i \in DOMAIN calls' : Carries(calls'[i])
    <3>1. Carries(calls'[z])
      BY <2>4 DEF Carries
    <3> QED
      BY <2>3, <2>5, <3>1 DEF QueueInv
  <2>16. ASSUME NEW i \in DOMAIN calls', calls'[i].do = "finished"
         PROVE  /\ child'[calls'[i].of] = "gone"
                /\ \A j \in DOMAIN calls' : i < j => calls'[j].do = "add" \/ calls'[j].of # calls'[i].of
    <3>1. i \in DOMAIN calls /\ calls'[i] = calls[i] /\ calls[i].of \in Started
      BY <2>3, <2>4, <2>5, <2>16
    <3>2. child[calls[i].of] = "gone"
      BY <2>16, <3>1 DEF QueueInv
    <3>3. child'[calls[i].of] = child[calls[i].of]
      BY <1>0, <2>1, <3>1
    <3>4. ASSUME NEW j \in DOMAIN calls', i < j
          PROVE  calls'[j].do = "add" \/ calls'[j].of # calls'[i].of
      <4>1. CASE j = z
        BY <2>4, <4>1
      <4>2. CASE j \in DOMAIN calls
        BY <2>3, <2>16, <3>1, <3>4, <4>2 DEF QueueInv
      <4> QED
        BY <2>5, <4>1, <4>2
    <3> QED
      BY <3>1, <3>2, <3>3, <3>4
  <2>17. \A x \in heard, b \in Started' : b < x => b \in heard
    <3>1. \A x \in heard : x < a /\ x \in Int /\ a \in Int
      BY <1>0, <2>1
    <3> QED
      BY <1>0, <2>1, <3>1
  <2> QED
    BY <1>0, <2>1, <2>2, <2>11, <2>12, <2>13, <2>14, <2>15, <2>16, <2>17 DEF QueueInv, Carries, WrittenBy
<1>2. ASSUME UNCHANGED <<started, calls, handled, lost, heard>>,
             \A b \in Attempts : child[b] = "gone" => child'[b] = "gone"
      PROVE  QueueInv'
  <2>1. Started' = Started /\ Expected' = Expected
    BY <1>2 DEF Started, Expected
  <2>2. \A i \in DOMAIN calls : calls[i].of \in Attempts
    BY <1>0, CallsOfStarted
  <2> QED
    BY <1>2, <2>1, <2>2 DEF QueueInv, Carries, WrittenBy
<1>3. ASSUME NEW a \in Started, ProcessAction(a) PROVE QueueInv'
  <2>1. UNCHANGED <<started, calls, handled, lost, heard>>
    BY <1>3, Frames DEF keptVars
  <2>2. \E c : child[a] # "gone" /\ child' = [child EXCEPT ![a] = c]
    BY <1>3 DEF ProcessAction, ChildEnds, Answer, ChildPrints
  <2>3. \A b \in Attempts : child[b] = "gone" => child'[b] = "gone"
    BY <1>0, <2>2
  <2> QED
    BY <1>2, <2>1, <2>3
<1>4. ASSUME NEW a \in Started, ReadyRead(a) PROVE QueueInv'
  <2>1. UNCHANGED <<started, child, handled, lost, heard>> /\ a \in arrived /\ a \in Attempts
    BY <1>0, <1>4 DEF ReadyRead, processVars, loggerVars
  <2>2. CASE a \in heard
    <3>1. calls' = Post("data", a, buffer[a])
      BY <1>4, <2>2 DEF ReadyRead
    <3>2. child[a] # "gone" /\ buffer[a] # <<>> /\ WrittenBy(buffer[a], {a})
      BY <2>1 DEF ProcessInv
    <3>3. a \in Expected /\ buffer[a] \in Seq(Output)
      BY <1>0, <2>1, <2>2, <3>2 DEF Expected, ProcessInv
    <3> QED
      BY <2>1, <3>1, <3>2, <3>3, PostStep
  <2>3. CASE a \notin heard
    <3>1. UNCHANGED calls
      BY <1>4, <2>3 DEF ReadyRead
    <3> QED
      BY <1>2, <2>1, <3>1
  <2> QED
    BY <2>2, <2>3
<1>5. ASSUME NEW a \in Started, Finished(a) PROVE QueueInv'
  <2>1. /\ UNCHANGED <<started, handled, heard>> /\ a \in Attempts
        /\ child[a] = "ended" /\ child' = [child EXCEPT ![a] = "gone"]
    BY <1>0, <1>5 DEF Finished, loggerVars
  <2>2. child'[a] = "gone" /\ \A b \in Attempts \ {a} : child'[b] = child[b]
    BY <1>0, <2>1
  <2>3. CASE a \in heard
    <3>1. calls' = Post("finished", a, <<>>) /\ UNCHANGED lost
      BY <1>5, <2>3 DEF Finished
    <3>2. a \in Expected
      BY <2>1, <2>3 DEF Expected, ProcessInv
    <3>3. <<>> \in Seq(Output) /\ child[a] # "gone"
      BY <2>1
    <3> QED
      BY <2>1, <2>2, <3>1, <3>2, <3>3, PostStep
  <2>4. CASE a \notin heard
    <3>1. lost' = lost \union {a} /\ UNCHANGED calls
      BY <1>5, <2>4 DEF Finished
    <3>2. Started' = Started /\ Expected' = Expected
      BY <2>1, <2>4, <3>1 DEF Started, Expected
    <3>3. \A i \in DOMAIN calls : calls[i].of \in Attempts
      BY <1>0, CallsOfStarted
    <3>4. \A b \in Attempts : child[b] = "gone" => child'[b] = "gone"
      BY <2>2
    <3> QED
      BY <2>1, <3>1, <3>2, <3>3, <3>4 DEF QueueInv, Carries, WrittenBy
  <2> QED
    BY <2>3, <2>4
<1>6. ASSUME NEW a \in Started, AddVPN(a) PROVE QueueInv'
  <2>1. UNCHANGED <<started, child, lost>>
    BY <1>6, InsideFacts
  <2>2. /\ UNCHANGED handled /\ a \notin heard /\ heard' = heard \union {a}
        /\ \A b \in Started : b < a => b \in heard
    BY <1>6, AddFacts
  <2>3. Call("add", a)
    BY <1>6 DEF AddVPN
  <2>4. \A x \in heard', b \in Started : b < x => b \in heard'
    BY <1>0, <2>2
  <2>5. Expected \subseteq Expected'
    BY <2>1, <2>2 DEF Expected
  <2> QED
    BY <1>0, <2>1, <2>2, <2>3, <2>4, <2>5, TakeStep
<1>7. ASSUME NEW a \in Started, LogVPNData(a) PROVE QueueInv'
  <2>1. Call("data", a) /\ UNCHANGED <<started, child, lost, heard, handled>>
    BY <1>7 DEF LogVPNData, processVars
  <2>2. Expected' = Expected
    BY <2>1 DEF Expected
  <2> QED
    BY <1>0, <2>1, <2>2, TakeStep
<1>8. ASSUME NEW a \in Started, ProcFinished(a) PROVE QueueInv'
  <2>1. /\ Call("finished", a) /\ UNCHANGED <<started, child, lost, heard>>
        /\ handled' = handled \union {a}
    BY <1>8 DEF ProcFinished, processVars
  <2>2. \A b \in Expected : b \in Expected' \/ b = a
    BY <2>1 DEF Expected
  <2> QED
    BY <1>0, <2>1, <2>2, TakeStep
<1>9. ASSUME FlushPending \/ UNCHANGED vars PROVE QueueInv'
  <2>1. UNCHANGED <<processVars, calls, handled, lost, heard>>
    BY <1>9, Frames DEF vars, loggerVars
  <2> QED
    BY <1>2, <2>1 DEF processVars
<1> QED
  BY <1>1, <1>3, <1>4, <1>5, <1>6, <1>7, <1>8, <1>9, Steps

-----------------------------------------------------------------------------
(* The maps of the logger.                                                 *)

LEMMA LogStep ==
  ASSUME LoggerTypeOK, QueueInv, LogInv, CertInv, OverlapInv, ProcessInv, [Next]_vars
  PROVE  LogInv'
<1>0. /\ Started \subseteq Attempts /\ Attempts \subseteq Int /\ heard \subseteq Started
      /\ log \in [Names -> Logs] /\ handled \subseteq heard
  BY TypeParts, AttemptTypes DEF InnerTypes, QueueInv, Attempts, ProcessInv
<1>1. ASSUME Outside PROVE LogInv'
  <2>1. /\ UNCHANGED <<heard, handled, log, pending>>
        /\ \A b \in Started : NameOf(b)' = NameOf(b)
        /\ \A n \in Names : Live(n)' = Live(n)
    BY <1>1, OutsideFacts DEF keptVars
  <2>2. \A n \in Names : log[n].open => log[n].proc \in Started
    BY <1>0 DEF LogInv
  <2>3. \A n \in Names : log[n].open =>
          /\ NameOf(log[n].proc)' = n
          /\ \A b \in heard : NameOf(b)' = n => b <= log[n].proc
    <3> SUFFICES ASSUME NEW n \in Names, log[n].open
                 PROVE  /\ NameOf(log[n].proc)' = n
                        /\ \A b \in heard : NameOf(b)' = n => b <= log[n].proc
      OBVIOUS
    <3>1. /\ NameOf(log[n].proc) = n /\ log[n].proc \in Started
          /\ \A b \in heard : NameOf(b) = n => b <= log[n].proc
      BY <2>2 DEF LogInv
    <3>2. log'[n].proc = log[n].proc
      BY <2>1
    <3>3. started'[log[n].proc] = started[log[n].proc]
      BY <2>1, <3>1 DEF NameOf
    <3> QED
      BY <1>0, <2>1, <3>1, <3>2, <3>3 DEF NameOf
  <2>4. \A n \in Names : WrittenBy(pending[n], Live(n)') /\ WrittenBy(log[n].certBuffer, Live(n)')
                        /\ Len(log[n].certBuffer) <= CertLimit
    BY <2>1 DEF LogInv
  <2> QED
    BY <2>1, <2>3, <2>4 DEF LogInv, WrittenBy
<1>2. ASSUME NEW a \in Started, AddVPN(a) PROVE LogInv'
  <2>1. Started' = Started /\ \A b : NameOf(b)' = NameOf(b)
    BY <1>2, InsideFacts
  <2>2. /\ UNCHANGED <<pending, handled, lost>> /\ heard' = heard \union {a}
        /\ a \notin heard /\ \A b \in heard : b < a
        /\ NameOf(a) \in Names
        /\ \A n \in Names \ {NameOf(a)} : log'[n] = log[n]
        /\ log'[NameOf(a)].open /\ log'[NameOf(a)].proc = a
        /\ log'[NameOf(a)].certBuffer = <<>>
    BY <1>2, AddFacts
  <2>3. \A n : Live(n) \subseteq Live(n)'
    BY <2>1, <2>2 DEF Live, Expected
  <2>4. \A n \in Names : WrittenBy(pending'[n], Live(n)')
    BY <2>2, <2>3 DEF LogInv, WrittenBy
  <2>5. \A n \in Names : WrittenBy(log'[n].certBuffer, Live(n)') /\ Len(log'[n].certBuffer) <= CertLimit
    <3> TAKE n \in Names
    <3>1. CASE n = NameOf(a)
      BY <2>2, <3>1, LoggerAssumption DEF WrittenBy
    <3>2. CASE n # NameOf(a)
      BY <2>2, <2>3, <3>2 DEF LogInv, WrittenBy
    <3> QED
      BY <3>1, <3>2
  <2>6. ASSUME NEW n \in Names
        PROVE  /\ ~log'[n].open => log'[n] = NoLog
               /\ log'[n].open =>
                    /\ log'[n].proc \in heard' \ handled'
                    /\ NameOf(log'[n].proc) = n
                    /\ \A b \in heard' : NameOf(b) = n => b <= log'[n].proc
    <3>1. CASE n = NameOf(a)
      <4>1. a \in heard' \ handled' /\ \A b \in heard' : b <= a
        BY <1>0, <2>2
      <4> QED
        BY <2>2, <3>1, <4>1
    <3>2. CASE n # NameOf(a)
      BY <2>2, <3>2 DEF LogInv
    <3> QED
      BY <3>1, <3>2
  <2> QED
    BY <2>1, <2>4, <2>5, <2>6 DEF LogInv, WrittenBy
<1>3. ASSUME Processes PROVE LogInv'
  <2>1. Started' = Started /\ \A b : NameOf(b)' = NameOf(b)
    BY <1>3, InsideFacts
  <2>2. /\ UNCHANGED heard
        /\ \/ UNCHANGED handled
           \/ \E a \in Expected : handled' = handled \union {a} /\ ProcFinished(a)
    BY <1>3, ProcessesFacts
  <2>3. Work
    BY <1>3, LoggerWorks DEF Processes
  <2>4. UNCHANGED lost
    BY <1>3, InsideFacts
  \* What a name still has is not of the process whose end was handled.
  <2>5. ASSUME NEW n \in Names
        PROVE  \/ log'[n] = NoLog /\ pending'[n] = <<>>
               \/ /\ Live(n)' = Live(n)
                  /\ log[n].proc \notin handled' \ handled \/ ~log[n].open
    <3>1. CASE UNCHANGED handled
      BY <2>1, <2>2, <2>4, <3>1 DEF Live, Expected
    <3>2. ASSUME NEW a \in Expected, handled' = handled \union {a}, ProcFinished(a)
          PROVE  \/ log'[n] = NoLog /\ pending'[n] = <<>>
                 \/ /\ Live(n)' = Live(n)
                    /\ log[n].proc \notin handled' \ handled \/ ~log[n].open
      <4>1. CASE n = NameOf(a)
        <5>1. log' = [log EXCEPT ![n] = NoLog] /\ pending' = [pending EXCEPT ![n] = <<>>]
          BY <3>2, <4>1 DEF ProcFinished
        <5> QED
          BY <1>0, <5>1, TypeParts DEF InnerTypes
      <4>2. CASE n # NameOf(a)
        <5>1. Live(n)' = Live(n)
          BY <2>1, <2>2, <2>4, <3>2, <4>2 DEF Live, Expected
        <5>2. log[n].open => log[n].proc # a
          BY <4>2 DEF LogInv
        <5> QED
          BY <3>2, <5>1, <5>2
      <4> QED
        BY <4>1, <4>2
    <3> QED
      BY <2>2, <3>1, <3>2
  <2>6. ASSUME NEW n \in Names
        PROVE  /\ ~log'[n].open => log'[n] = NoLog
               /\ log'[n].open =>
                    /\ log'[n].proc \in heard' \ handled'
                    /\ NameOf(log'[n].proc) = n
                    /\ \A b \in heard' : NameOf(b) = n => b <= log'[n].proc
               /\ WrittenBy(pending'[n], Live(n)')
               /\ WrittenBy(log'[n].certBuffer, Live(n)')
               /\ Len(log'[n].certBuffer) <= CertLimit
    <3>1. CASE log'[n] = NoLog /\ pending'[n] = <<>>
      <4>1. WrittenBy(<<>>, Live(n)')
        BY DEF WrittenBy
      <4> QED
        BY <3>1, <4>1, NoLogType, LoggerAssumption
    <3>2. ASSUME Live(n)' = Live(n), log[n].proc \notin handled' \ handled \/ ~log[n].open,
                 log'[n] = log[n], Piece(n, pending'[n])
          PROVE  <2>6!2
      BY <2>2, <3>2 DEF LogInv, Piece
    <3>3. ASSUME Live(n)' = Live(n), log[n].proc \notin handled' \ handled \/ ~log[n].open,
                 NEW chunk \in Seq(Output), Processed(n, chunk), log'[n] = LogAfter(n, chunk)
          PROVE  <2>6!2
      <4>1. /\ log'[n].open = log[n].open /\ log'[n].proc = log[n].proc
            /\ ~log[n].open => log'[n] = log[n]
            /\ \/ log'[n].certBuffer = <<>>
               \/ log'[n].certBuffer = log[n].certBuffer
               \/ log'[n].certBuffer = log[n].certBuffer \o chunk
            /\ Len(log'[n].certBuffer) <= CertLimit
        BY <3>3, LogAfterFacts DEF LogInv
      <4>2. WrittenBy(<<>>, Live(n))
        BY DEF WrittenBy
      <4>3. WrittenBy(chunk, Live(n)) /\ pending'[n] = <<>>
        BY <3>3 DEF Processed, Piece
      <4>4. log[n].certBuffer \in Seq(Output) /\ WrittenBy(log[n].certBuffer, Live(n))
        BY <1>0 DEF Logs, LogInv
      <4>5. WrittenBy(log[n].certBuffer \o chunk, Live(n))
        BY <4>3, <4>4, ConcatWritten
      <4>6. WrittenBy(log'[n].certBuffer, Live(n)) /\ WrittenBy(pending'[n], Live(n))
        BY <4>1, <4>2, <4>3, <4>4, <4>5
      <4>7. /\ ~log'[n].open => log'[n] = NoLog
            /\ log'[n].open =>
                    /\ log'[n].proc \in heard' \ handled'
                    /\ NameOf(log'[n].proc) = n
                    /\ \A b \in heard' : NameOf(b) = n => b <= log'[n].proc
        BY <2>2, <3>3, <4>1 DEF LogInv
      <4> QED
        BY <3>3, <4>1, <4>6, <4>7
    <3>4. \/ log'[n] = log[n] /\ Piece(n, pending'[n])
          \/ \E chunk \in Seq(Output) : Processed(n, chunk)
      BY <2>3 DEF Work
    <3>5. \A chunk : Processed(n, chunk) =>
            /\ pending'[n] = <<>> /\ (log'[n] = LogAfter(n, chunk) \/ log'[n] = NoLog)
      BY DEF Processed
    <3> QED
      BY <2>5, <3>1, <3>2, <3>3, <3>4, <3>5
  <2> QED
    BY <2>1, <2>6 DEF LogInv, WrittenBy
<1> QED
  BY <1>1, <1>2, <1>3, TwoSides

\* Two attempts of a name of which the first is expected when the other is added.
LEMMA OverlapStep ==
  ASSUME LoggerTypeOK, QueueInv, OverlapInv, [Next]_vars
  PROVE  OverlapInv'
<1>0. heard \subseteq Started
  BY DEF QueueInv
<1>1. ASSUME Outside PROVE OverlapInv'
  <2>1. /\ UNCHANGED <<heard, overlapped>> /\ Expected' = Expected
        /\ \A b \in Started : NameOf(b)' = NameOf(b)
    BY <1>1, OutsideFacts DEF keptVars
  <2> QED
    BY <1>0, <2>1 DEF OverlapInv
<1>2. ASSUME NEW a \in Started, AddVPN(a) PROVE OverlapInv'
  <2>1. \A b : NameOf(b)' = NameOf(b)
    BY <1>2, InsideFacts
  <2>2. /\ UNCHANGED <<handled, lost>> /\ heard' = heard \union {a} /\ a \notin heard
        /\ \A b \in heard : b < a
        /\ overlapped \subseteq overlapped'
        /\ \A b \in Expected : NameOf(b) = NameOf(a) => {a, b} \subseteq overlapped'
    BY <1>2, AddFacts
  <2>3. Started \subseteq Int
    BY AttemptTypes DEF Attempts
  <2> SUFFICES ASSUME NEW b \in heard', NEW c \in heard', b < c, NameOf(b) = NameOf(c),
                      b \in Expected'
               PROVE  {b, c} \subseteq overlapped'
    BY <2>1 DEF OverlapInv
  <2>4. b # a
    BY <1>0, <2>2, <2>3
  <2>5. b \in heard /\ b \in Expected
    BY <2>2, <2>4 DEF Expected
  <2>6. CASE c = a
    BY <2>2, <2>5, <2>6
  <2>7. CASE c # a
    BY <2>2, <2>5, <2>7 DEF OverlapInv
  <2> QED
    BY <2>6, <2>7
<1>3. ASSUME Processes PROVE OverlapInv'
  <2>1. UNCHANGED <<heard, overlapped>> /\ Expected' \subseteq Expected
    BY <1>3, ProcessesFacts
  <2>2. \A b : NameOf(b)' = NameOf(b)
    BY <1>3, InsideFacts
  <2> QED
    BY <2>1, <2>2 DEF OverlapInv
<1> QED
  BY <1>1, <1>2, <1>3, TwoSides

LEMMA ListeningStep ==
  ASSUME LoggerTypeOK, QueueInv, LogInv, CertInv, OverlapInv, Listening, [Next]_vars
  PROVE  Listening'
<1>0. heard \subseteq Started /\ \A b \in Started : NameOf(b) \in Names
  BY AttemptTypes DEF QueueInv
<1>1. ASSUME Outside PROVE Listening'
  <2>1. /\ UNCHANGED <<heard, overlapped, handled, log>> /\ lost \subseteq lost'
        /\ \A b \in Started : NameOf(b)' = NameOf(b)
    BY <1>1, OutsideFacts DEF keptVars
  <2> SUFFICES ASSUME NEW b \in heard, b \notin handled \union lost' \union overlapped
               PROVE  log[NameOf(b)].open /\ log[NameOf(b)].proc = b
    BY <1>0, <2>1 DEF Listening
  <2> QED
    BY <2>1 DEF Listening
<1>2. ASSUME NEW a \in Started, AddVPN(a) PROVE Listening'
  <2>1. UNCHANGED lost /\ \A b : NameOf(b)' = NameOf(b)
    BY <1>2, InsideFacts
  <2>2. /\ UNCHANGED <<handled, lost>> /\ heard' = heard \union {a}
        /\ overlapped \subseteq overlapped'
        /\ \A b \in Expected : NameOf(b) = NameOf(a) => {a, b} \subseteq overlapped'
        /\ NameOf(a) \in Names /\ \A n \in Names \ {NameOf(a)} : log'[n] = log[n]
        /\ log'[NameOf(a)].open /\ log'[NameOf(a)].proc = a
    BY <1>2, AddFacts
  <2> SUFFICES ASSUME NEW b \in heard', b \notin handled \union lost \union overlapped'
               PROVE  log'[NameOf(b)].open /\ log'[NameOf(b)].proc = b
    BY <2>1, <2>2 DEF Listening
  <2>3. CASE b = a
    BY <2>2, <2>3
  <2>4. CASE b # a
    <3>1. b \in Expected /\ NameOf(b) # NameOf(a) /\ b \notin overlapped
      BY <2>2, <2>4 DEF Expected
    <3>2. log[NameOf(b)].open /\ log[NameOf(b)].proc = b
      BY <3>1 DEF Listening, Expected
    <3>3. log'[NameOf(b)] = log[NameOf(b)]
      BY <1>0, <2>2, <3>1 DEF Expected
    <3> QED
      BY <3>2, <3>3
  <2> QED
    BY <2>3, <2>4
<1>3. ASSUME Processes PROVE Listening'
  <2>1. UNCHANGED lost /\ \A b : NameOf(b)' = NameOf(b)
    BY <1>3, InsideFacts
  <2>2. /\ UNCHANGED <<heard, overlapped>> /\ handled \subseteq handled'
        /\ \/ UNCHANGED handled
           \/ \E a \in Expected : handled' = handled \union {a} /\ ProcFinished(a)
    BY <1>3, ProcessesFacts
  <2> SUFFICES ASSUME NEW b \in heard, b \notin handled' \union lost \union overlapped
               PROVE  log'[NameOf(b)].open /\ log'[NameOf(b)].proc = b
    BY <2>1, <2>2 DEF Listening
  <2> DEFINE n == NameOf(b)
  <2>3. n \in Names /\ b \in Expected
    BY <1>0, <2>2 DEF Expected
  <2>4. log[n].open /\ log[n].proc = b
    BY <2>2 DEF Listening
  <2>5. ~Closed(n)
    <3> SUFFICES ASSUME NEW a \in Started, NameOf(a) = n, ProcFinished(a) PROVE FALSE
      BY DEF Closed
    <3>1. a \in Expected /\ a \in heard /\ a # b
      BY EndFacts DEF Expected
    <3>2. a \in Int /\ b \in Int
      BY <1>0, <3>1, AttemptTypes DEF Attempts
    <3>3. CASE a < b
      BY <2>3, <3>1, <3>3 DEF OverlapInv
    <3>4. CASE b < a
      BY <2>3, <3>1, <3>4 DEF OverlapInv
    <3> QED
      BY <3>1, <3>2, <3>3, <3>4
  <2>6. log'[n] = log[n] \/ \E chunk \in Seq(Output) : log'[n] = LogAfter(n, chunk)
    <3>1. Work
      BY <1>3, LoggerWorks DEF Processes
    <3> QED
      BY <2>3, <2>5, <3>1 DEF Work, Processed
  <2>7. log'[n].open = log[n].open /\ log'[n].proc = log[n].proc
    BY <2>3, <2>6, LogAfterFacts
  <2> QED
    BY <2>4, <2>7
<1> QED
  BY <1>1, <1>2, <1>3, TwoSides

\* A signal is about output of the process it is for, or of one it overlaps with.
LEMMA EmittedFor ==
  ASSUME LoggerTypeOK, QueueInv, LogInv, OverlapInv, NEW n \in Names,
         NEW chunk \in Seq(Output), Piece(n, chunk), NEW s \in EmittedBy(n, chunk)
  PROVE  /\ s.from \in Live(n) /\ s.to = log[n].proc /\ log[n].open
         /\ s.from = s.to \/ {s.from, s.to} \subseteq overlapped
<1>1. /\ log[n].open /\ s.to = log[n].proc
      /\ \/ \E i \in DOMAIN chunk : s.from = chunk[i].by
         \/ \E i \in DOMAIN log[n].certBuffer : s.from = log[n].certBuffer[i].by
  BY EmittedFacts
<1>2. s.from \in Live(n)
  BY <1>1 DEF Piece, LogInv, WrittenBy
<1>3. /\ s.to \in heard /\ s.from \in heard /\ s.from <= s.to
      /\ NameOf(s.from) = n /\ NameOf(s.to) = n /\ s.from \in Expected
  BY <1>1, <1>2 DEF LogInv, Live, Expected
<1>4. s.to \in Int /\ s.from \in Int
  BY <1>3, AttemptTypes DEF QueueInv, Attempts
<1>5. CASE s.from < s.to
  BY <1>1, <1>2, <1>3, <1>5 DEF OverlapInv
<1> QED
  BY <1>1, <1>2, <1>3, <1>4, <1>5

LEMMA AttributionStep ==
  ASSUME LoggerTypeOK, QueueInv, LogInv, CertInv, OverlapInv, Attribution, [Next]_vars
  PROVE  Attribution'
<1>1. ASSUME Outside PROVE Attribution'
  BY <1>1, OutsideFacts DEF Attribution, keptVars
<1>2. ASSUME NEW a \in Started, AddVPN(a) PROVE Attribution'
  <2>1. UNCHANGED shown /\ overlapped \subseteq overlapped'
    BY <1>2, AddFacts
  <2> QED
    BY <2>1 DEF Attribution
<1>3. ASSUME Processes PROVE Attribution'
  <2>1. UNCHANGED overlapped
    BY <1>3, ProcessesFacts
  <2>2. Work
    BY <1>3, LoggerWorks DEF Processes
  <2> SUFFICES ASSUME NEW s \in shown'
               PROVE  s.from = s.to \/ {s.from, s.to} \subseteq overlapped
    BY <2>1 DEF Attribution
  <2>3. CASE s \in shown
    BY <2>3 DEF Attribution
  <2>4. CASE s \notin shown
    <3>1. PICK n \in Names, chunk \in Seq(Output) :
            Processed(n, chunk) /\ s \in EmittedBy(n, chunk)
      BY <2>2, <2>4 DEF Work
    <3> QED
      BY <3>1, EmittedFor DEF Processed
  <2> QED
    BY <2>3, <2>4
<1> QED
  BY <1>1, <1>2, <1>3, TwoSides

\* The log of a name belongs to one process at a time, so it knows of its cue.
LEMMA BrowserStep ==
  ASSUME LoggerTypeOK, QueueInv, LogInv, CertInv, OverlapInv, BrowserInv, [Next]_vars
  PROVE  BrowserInv'
<1>0. /\ heard \subseteq Started /\ Started \subseteq Attempts /\ opened \in [Attempts -> Nat]
      /\ \A n \in Names : log[n].open => log[n].proc \in heard /\ NameOf(log[n].proc) = n
  BY AttemptTypes, TypeParts DEF QueueInv, InnerTypes, LogInv
<1>1. ASSUME Outside PROVE BrowserInv'
  BY <1>1, OutsideFacts DEF BrowserInv, keptVars
<1>2. ASSUME NEW a \in Started, AddVPN(a) PROVE BrowserInv'
  <2>1. /\ UNCHANGED opened /\ heard' = heard \union {a} /\ a \notin heard
        /\ NameOf(a) \in Names /\ \A n \in Names \ {NameOf(a)} : log'[n] = log[n]
        /\ log'[NameOf(a)].open /\ log'[NameOf(a)].proc = a
    BY <1>2, AddFacts
  <2>2. opened[a] # 1
    BY <1>0, <2>1 DEF BrowserInv
  <2>3. \A n \in Names : log'[n].open /\ opened[log'[n].proc] = 1 => log'[n].saml
    BY <2>1, <2>2 DEF BrowserInv
  <2> QED
    BY <2>1, <2>3 DEF BrowserInv
<1>3. ASSUME Processes PROVE BrowserInv'
  <2>1. UNCHANGED heard
    BY <1>3, ProcessesFacts
  <2>2. Work
    BY <1>3, LoggerWorks DEF Processes
  <2>3. ASSUME NEW b \in Attempts
        PROVE  \/ opened'[b] = opened[b]
               \/ /\ opened[b] = 0 /\ opened'[b] = 1 /\ b \in heard
                  /\ \A n \in Names : log'[n].open /\ log'[n].proc = b => log'[n].saml
    <3>1. CASE opened'[b] = opened[b]
      BY <3>1
    <3>2. CASE opened'[b] # opened[b]
      <4>1. PICK n \in Names, chunk \in Seq(Output) :
              /\ opened'[b] = opened[b] + 1 /\ Processed(n, chunk) /\ log[n].proc = b
              /\ Verdict(n, chunk) = "passed" /\ WantsBrowser(n, chunk)
        BY <2>2, <3>2 DEF Work
      <4>2. log[n].open /\ LogAfter(n, chunk).saml
        BY <4>1, LogAfterFacts
      <4>3. b \in heard /\ NameOf(b) = n
        BY <1>0, <4>1, <4>2
      <4>4. opened[b] # 1
        BY <4>1, <4>2 DEF BrowserInv, WantsBrowser
      <4>5. opened[b] \in Nat /\ opened[b] <= 1
        BY <1>0 DEF BrowserInv
      <4>6. ASSUME NEW m \in Names, log'[m].open, log'[m].proc = b PROVE log'[m].saml
        <5>1. log[m].open /\ log[m].proc = b
          <6>1. \/ log'[m] = log[m]
                \/ \E piece \in Seq(Output) : log'[m] = LogAfter(m, piece)
            BY <2>2, <4>6, NoLogType DEF Work, Processed
          <6> QED
            BY <4>6, <6>1, LogAfterFacts
        <5>2. m = n
          BY <1>0, <4>3, <5>1
        <5> QED
          BY <4>1, <4>2, <4>6, <5>2, NoLogType DEF Processed
      <4> QED
        BY <4>1, <4>3, <4>4, <4>5, <4>6
    <3> QED
      BY <3>1, <3>2
  <2>4. \A b \in Attempts : opened'[b] <= 1 /\ (opened'[b] = 1 => b \in heard)
    BY <1>0, <2>3 DEF BrowserInv
  <2>5. ASSUME NEW n \in Names, log'[n].open, opened'[log'[n].proc] = 1 PROVE log'[n].saml
    <3>1. \/ log'[n] = log[n]
          \/ \E chunk \in Seq(Output) : log'[n] = LogAfter(n, chunk)
      BY <2>2, <2>5, NoLogType DEF Work, Processed
    <3>2. log[n].open /\ log'[n].proc = log[n].proc /\ (log[n].saml => log'[n].saml)
      BY <2>5, <3>1, LogAfterFacts
    <3>3. log[n].proc \in Attempts
      BY <1>0, <3>2
    <3>4. CASE opened'[log[n].proc] = opened[log[n].proc]
      BY <2>5, <3>2, <3>4 DEF BrowserInv
    <3>5. CASE opened'[log[n].proc] # opened[log[n].proc]
      BY <2>3, <2>5, <3>2, <3>3, <3>5
    <3> QED
      BY <3>4, <3>5
  <2> QED
    BY <2>1, <2>4, <2>5 DEF BrowserInv
<1> QED
  BY <1>1, <1>2, <1>3, TwoSides

-----------------------------------------------------------------------------
(* What the processes print.                                               *)

\* What comes of a refused certificate is printed right behind it.
LEMMA Order ==
  ASSUME NEW was \in Lasts, NEW l \in NextLines(was), NEW next \in After(was, l)
  PROVE  /\ l \in {"denied", "detail"} => was = "cert"
         /\ next = "cert" => l \in {"cert", "detail"}
<1>1. ASSUME was \in {"none", "saml", "prompt", "down"} PROVE l \notin {"denied", "detail"}
  BY <1>1 DEF NextLines
<1>2. ASSUME was \in {"tunnel", "ask", "auth", "denied", "error", "closed", "out"}
      PROVE  l \notin {"denied", "detail"}
  BY <1>2 DEF NextLines
<1>3. was \in {"none", "saml", "prompt", "down", "tunnel", "ask", "auth", "denied", "error",
               "closed", "out", "cert"}
  BY DEF Lasts, Lines
<1>4. next = "cert" => l \in {"cert", "detail"}
  BY DEF After
<1> QED
  BY <1>1, <1>2, <1>3, <1>4

LEMMA PrintFacts ==
  ASSUME LoggerTypeOK, NEW a \in Started, NEW l \in Lines, ChildPrints(a, l)
  PROVE  /\ UNCHANGED <<started, calls, handled, lost, loggerVars>>
         /\ a \in Attempts /\ [by |-> a, line |-> l] \in Output
         /\ \A b \in Attempts \ {a} : last'[b] = last[b] /\ buffer'[b] = buffer[b]
         /\ buffer'[a] = Append(buffer[a], [by |-> a, line |-> l]) /\ buffer[a] \in Seq(Output)
         /\ l \in {"denied", "detail"} => last[a] = "cert"
         /\ last'[a] = "cert" => l \in {"cert", "detail"}
<1>1. /\ a \in Attempts /\ buffer \in [Attempts -> Seq(Output)]
      /\ last \in [Attempts -> Lasts]
  BY TypeParts, AttemptTypes DEF OuterTypes
<1>2. PICK next \in After(last[a], l) : last' = [last EXCEPT ![a] = next]
  BY DEF ChildPrints
<1>3. /\ l \in NextLines(last[a])
      /\ buffer' = [buffer EXCEPT ![a] = Append(@, [by |-> a, line |-> l])]
      /\ UNCHANGED <<started, calls, handled, lost, loggerVars>>
  BY DEF ChildPrints
<1>4. last'[a] = next /\ \A b \in Attempts \ {a} : last'[b] = last[b]
  BY <1>1, <1>2
<1>5. /\ buffer'[a] = Append(buffer[a], [by |-> a, line |-> l])
      /\ \A b \in Attempts \ {a} : buffer'[b] = buffer[b]
  BY <1>1, <1>3
<1>6. [by |-> a, line |-> l] \in Output
  BY <1>1 DEF Output
<1>7. last[a] \in Lasts
  BY <1>1
<1>8. /\ l \in {"denied", "detail"} => last[a] = "cert"
      /\ next = "cert" => l \in {"cert", "detail"}
  BY <1>2, <1>3, <1>7, Order
<1> QED
  BY <1>1, <1>3, <1>4, <1>5, <1>6, <1>8

-----------------------------------------------------------------------------
(* The refused certificate, from piece to piece.                           *)

LEMMA BeforeNext ==
  ASSUME NEW a \in heard', NEW n, NameOf(a)' = n, NEW k,
         \/ \E j \in DataOf(a)' : /\ j < k /\ EndsInCert(calls'[j].data)
                                  /\ \A i \in DataOf(a)' : i < k => i <= j
         \/ HeldInCert(n)' /\ \A i \in DataOf(a)' : ~(i < k)
  PROVE  CertBefore(a, k)'
BY DEF CertBefore, HeldInCert, EndsInCert, NameOf

\* A call at the end changes nothing before.
LEMMA BeforeKept ==
  ASSUME NEW a \in heard', NEW n, NameOf(a) = n, NameOf(a)' = n, NEW k, NEW k2,
         \A i \in DataOf(a)' : i < k2 => /\ i \in DataOf(a) /\ i < k /\ calls'[i] = calls[i],
         \A i \in DataOf(a) : i < k => /\ i \in DataOf(a)' /\ i < k2 /\ calls'[i] = calls[i],
         HeldInCert(n) => HeldInCert(n)',
         CertBefore(a, k)
  PROVE  CertBefore(a, k2)'
<1>1. \/ \E j \in DataOf(a) : /\ j < k /\ EndsInCert(calls[j].data)
                              /\ \A i \in DataOf(a) : i < k => i <= j
      \/ HeldInCert(n) /\ \A i \in DataOf(a) : ~(i < k)
  BY DEF CertBefore
<1>2. CASE HeldInCert(n) /\ \A i \in DataOf(a) : ~(i < k)
  <2>1. HeldInCert(n)' /\ \A i \in DataOf(a)' : ~(i < k2)
    BY <1>2
  <2> QED
    BY <2>1, BeforeNext
<1>3. CASE \E j \in DataOf(a) : /\ j < k /\ EndsInCert(calls[j].data)
                                /\ \A i \in DataOf(a) : i < k => i <= j
  <2>1. PICK j \in DataOf(a) : /\ j < k /\ EndsInCert(calls[j].data)
                               /\ \A i \in DataOf(a) : i < k => i <= j
    BY <1>3
  <2>2. j \in DataOf(a)' /\ j < k2 /\ calls'[j] = calls[j]
    BY <2>1
  <2>3. EndsInCert(calls'[j].data)
    BY <2>1, <2>2
  <2>4. \A i \in DataOf(a)' : i < k2 => i <= j
    BY <2>1
  <2> QED
    BY <2>2, <2>3, <2>4, BeforeNext
<1> QED
  BY <1>1, <1>2, <1>3

\* The calls move up when the logger takes one.
LEMMA BeforeShift ==
  ASSUME LoggerTypeOK, NEW do, NEW c, Call(do, c), NEW a \in heard',
         NEW n, NameOf(a) = n, NameOf(a)' = n, NEW k \in Nat \ {0},
         1 \in DataOf(a) => (EndsInCert(calls[1].data) => HeldInCert(n)'),
         1 \notin DataOf(a) => (HeldInCert(n) => HeldInCert(n)'),
         CertBefore(a, k + 1)
  PROVE  CertBefore(a, k)'
<1>1. /\ DOMAIN calls = 1 .. Len(calls) /\ DOMAIN calls' = 1 .. Len(calls) - 1
      /\ Len(calls) \in Nat /\ \A i \in 1 .. Len(calls) - 1 : calls'[i] = calls[i + 1]
  BY CallFacts
<1>2. /\ \A i \in DataOf(a)' : i \in Nat \ {0} /\ i + 1 \in DataOf(a) /\ calls'[i] = calls[i + 1]
      /\ \A i \in DataOf(a) : i \in Nat \ {0}
      /\ \A i \in DataOf(a) : i # 1 => i - 1 \in DataOf(a)' /\ calls'[i - 1] = calls[i]
  BY <1>1 DEF DataOf
<1>3. \/ \E j \in DataOf(a) : /\ j < k + 1 /\ EndsInCert(calls[j].data)
                              /\ \A i \in DataOf(a) : i < k + 1 => i <= j
      \/ HeldInCert(n) /\ \A i \in DataOf(a) : ~(i < k + 1)
  BY DEF CertBefore
<1>4. CASE HeldInCert(n) /\ \A i \in DataOf(a) : ~(i < k + 1)
  <2>1. 1 \notin DataOf(a) /\ \A i \in DataOf(a)' : ~(i < k)
    BY <1>2, <1>4
  <2>2. HeldInCert(n)'
    BY <1>4, <2>1
  <2> QED
    BY <2>1, <2>2, BeforeNext
<1>5. CASE \E j \in DataOf(a) : /\ j < k + 1 /\ EndsInCert(calls[j].data)
                                /\ \A i \in DataOf(a) : i < k + 1 => i <= j
  <2>1. PICK j \in DataOf(a) : /\ j < k + 1 /\ EndsInCert(calls[j].data)
                               /\ \A i \in DataOf(a) : i < k + 1 => i <= j
    BY <1>5
  <2>2. CASE j = 1
    <3>1. \A i \in DataOf(a)' : ~(i < k)
      BY <1>2, <2>1, <2>2
    <3>2. HeldInCert(n)'
      BY <2>1, <2>2
    <3> QED
      BY <3>1, <3>2, BeforeNext
  <2>3. CASE j # 1
    <3> DEFINE h == j - 1
    <3>1. h \in DataOf(a)' /\ calls'[h] = calls[j] /\ h < k
      BY <1>2, <2>1, <2>3
    <3>2. \A i \in DataOf(a)' : i < k => i <= h
      BY <1>2, <2>1
    <3>3. EndsInCert(calls'[h].data)
      BY <2>1, <3>1
    <3> HIDE DEF h
    <3> QED
      BY <3>1, <3>2, <3>3, BeforeNext
  <2> QED
    BY <2>2, <2>3
<1> QED
  BY <1>3, <1>4, <1>5

\* A piece that ends within a refused certificate leaves the mode on.
LEMMA ModeKept ==
  ASSUME LoggerTypeOK, QueueInv, LogInv, OverlapInv, Listening, NEW n \in Names,
         NEW chunk, Piece(n, chunk), NEW a \in Watched, a \in Live(n),
         a \notin MixedUp(n, chunk), a \notin Swallowed(n, chunk),
         EndsInCert(chunk) \/ (Len(chunk) = 0 /\ log[n].certMode)
  PROVE  LogAfter(n, chunk).certMode
<1>1. /\ chunk \in Seq(Output) /\ DOMAIN chunk = 1 .. Len(chunk) /\ Len(chunk) \in Nat
      /\ Follows(chunk) /\ (BeginsBehind(chunk) => log[n].certMode)
  BY DEF Piece
<1>2. a \in Expected /\ NameOf(a) = n /\ a \notin overlapped
  BY DEF Watched, Live
<1>3. \A i \in DOMAIN chunk : chunk[i].by = a
  BY <1>2, OnlyOne DEF Piece, WrittenBy, Live
<1>4. log[n].open
  BY <1>2 DEF Listening, Expected, Watched
<1>5. \A line : Contains(chunk, line) => a \in Writers(chunk, line)
  BY <1>3 DEF Contains, Writers
<1>6. EndsInCert(chunk) => log[n].certMode \/ Contains(chunk, "cert")
  <2> SUFFICES ASSUME EndsInCert(chunk) PROVE log[n].certMode \/ Contains(chunk, "cert")
    OBVIOUS
  <2>1. Len(chunk) \in DOMAIN chunk /\ chunk[Len(chunk)].line \in {"cert", "detail"}
    BY <1>1 DEF EndsInCert
  <2>2. BeginsBehind(chunk) \/ \E j \in DOMAIN chunk : chunk[j].line = "cert"
    BY <1>1, <2>1 DEF Follows
  <2> QED
    BY <1>1, <2>2 DEF Contains, Writers
<1>7. CertFlow(n, chunk)
  BY <1>6 DEF CertFlow
<1>8. Verdict(n, chunk) \in {"error", "passed"}
  BY <1>4, <1>7 DEF Verdict
\* Given up: what was refused has been before, and the mode stays.
<1>9. CASE Verdict(n, chunk) = "error"
  <2>1. ~Contains(chunk, "cert")
    BY <1>5, <1>7, <1>9 DEF Swallowed
  <2>2. log[n].certMode
    BY <1>7, <2>1 DEF CertFlow
  <2> QED
    BY <1>9, <2>2 DEF LogAfter
<1>10. CASE Verdict(n, chunk) = "passed"
  <2>1. ~CertComplete(n, chunk)
    <3>1. CASE EndsInCert(chunk)
      <4> DEFINE j == Len(chunk)
      <4>1. j \in DOMAIN chunk /\ chunk[j].line \in {"cert", "detail"}
        BY <1>1, <3>1 DEF EndsInCert
      <4>2. CertComplete(n, chunk) => chunk[j].by \in MixedUp(n, chunk)
        BY <1>10, <4>1 DEF MixedUp
      <4> QED
        BY <1>3, <4>1, <4>2
    <3>2. CASE Len(chunk) = 0 /\ log[n].certMode
      <4>1. ~Contains(chunk, "closed")
        BY <1>1, <3>2 DEF Contains, Writers
      <4>2. log[n].certBuffer \in Seq(Output) /\ Len(log[n].certBuffer) <= CertLimit
        BY TypeParts DEF InnerTypes, Logs, LogInv
      <4>3. Len(log[n].certBuffer \o chunk) = Len(log[n].certBuffer) + Len(chunk)
        BY <1>1, <4>2, ConcatProperties
      <4>4. Len(Collected(n, chunk)) = Len(log[n].certBuffer)
        BY <1>7, <3>2, <4>2, <4>3 DEF Collected
      <4>5. Len(log[n].certBuffer) \in Nat /\ CertLimit \in Nat
        BY <4>2, LoggerAssumption
      <4>6. ~(Len(Collected(n, chunk)) > CertLimit)
        BY <4>2, <4>4, <4>5
      <4> QED
        BY <4>1, <4>6 DEF CertComplete
    <3> QED
      BY <3>1, <3>2
  <2> QED
    BY <1>7, <1>10, <2>1, LogAfterFacts, <1>1
<1> QED
  BY <1>8, <1>9, <1>10

\* What a step leaves of it all.
LEMMA CertNext ==
  ASSUME NEW a, NEW n, NameOf(a)' = n, NEW z, z = Len(calls'),
         a \in heard' => /\ Follows(pending'[n])
                         /\ BeginsBehind(pending'[n]) => log'[n].certMode,
         \A k \in DataOf(a)' : /\ Follows(calls'[k].data)
                               /\ BeginsBehind(calls'[k].data) => CertBefore(a, k)',
         Follows(buffer'[a]),
         BeginsBehind(buffer'[a]) => CertBefore(a, z + 1)',
         last'[a] = "cert" => \/ EndsInCert(buffer'[a])
                              \/ Len(buffer'[a]) = 0 /\ CertBefore(a, z + 1)'
  PROVE  CertOf(a)'
<1>1. (a \in heard => HeldFollows(NameOf(a)))'
  BY DEF HeldFollows, Follows, BeginsBehind, NameOf
<1>2. CallsFollow(a)'
  BY DEF CallsFollow, Follows, BeginsBehind
<1>3. BufferFollows(a)'
  BY DEF BufferFollows, Follows, BeginsBehind, EndsInCert, CertBefore
<1> QED
  BY <1>1, <1>2, <1>3 DEF CertOf

\* Nothing about the attempt but what the logger holds changes, and calls about
\* something else come to the queue.
LEMMA CertKept ==
  ASSUME LoggerTypeOK, NEW a, NEW n, NameOf(a) = n, NameOf(a)' = n, UNCHANGED heard,
         a \in heard => /\ Follows(pending'[n])
                        /\ BeginsBehind(pending'[n]) => log'[n].certMode
                        /\ HeldInCert(n) => HeldInCert(n)',
         buffer'[a] = buffer[a], last'[a] = last[a], NEW z \in Nat,
         z = Len(calls'), Len(calls) <= z, DOMAIN calls' = 1 .. z,
         \A i \in 1 .. Len(calls) : calls'[i] = calls[i],
         \A i \in DOMAIN calls' \ DOMAIN calls : calls'[i].do # "data" \/ calls'[i].of # a,
         CertOf(a)
  PROVE  CertOf(a)'
<1>0. DOMAIN calls = 1 .. Len(calls) /\ Len(calls) \in Nat
  BY CallsOfStarted
<1>1. /\ \A i \in DataOf(a)' : i \in DataOf(a) /\ i < Len(calls) + 1 /\ i < z + 1 /\ calls'[i] = calls[i]
      /\ \A i \in DataOf(a) : i \in DataOf(a)' /\ i < Len(calls) + 1 /\ i < z + 1 /\ calls'[i] = calls[i]
  BY <1>0 DEF DataOf
<1>2. ASSUME NEW k, CertBefore(a, k) PROVE CertBefore(a, k)'
  <2>1. a \in heard
    BY <1>2 DEF CertBefore
  <2> QED
    BY <1>1, <1>2, <2>1, BeforeKept
<1>3. ASSUME CertBefore(a, Len(calls) + 1) PROVE CertBefore(a, z + 1)'
  <2>1. a \in heard
    BY <1>3 DEF CertBefore
  <2> QED
    BY <1>1, <1>3, <2>1, BeforeKept
<1>4. \A k \in DataOf(a)' : /\ Follows(calls'[k].data)
                            /\ BeginsBehind(calls'[k].data) => CertBefore(a, k)'
  BY <1>1, <1>2 DEF CertOf, CallsFollow
<1>5. /\ Follows(buffer[a])
      /\ BeginsBehind(buffer[a]) => CertBefore(a, Len(calls) + 1)
      /\ last[a] = "cert" => \/ EndsInCert(buffer[a])
                             \/ Len(buffer[a]) = 0 /\ CertBefore(a, Len(calls) + 1)
  BY DEF CertOf, BufferFollows
<1> QED
  BY <1>3, <1>4, <1>5, CertNext

\* The logger takes the first call.
LEMMA CertShifted ==
  ASSUME LoggerTypeOK, NEW do, NEW c, Call(do, c), NEW a \in heard, a \in heard',
         NEW n, NameOf(a) = n, NameOf(a)' = n,
         Follows(pending'[n]), BeginsBehind(pending'[n]) => log'[n].certMode,
         1 \in DataOf(a) => (EndsInCert(calls[1].data) => HeldInCert(n)'),
         1 \notin DataOf(a) => (HeldInCert(n) => HeldInCert(n)'),
         buffer'[a] = buffer[a], last'[a] = last[a],
         CertOf(a)
  PROVE  CertOf(a)'
<1>0. /\ Len(calls) \in Nat /\ DOMAIN calls = 1 .. Len(calls) /\ 1 \in DOMAIN calls
      /\ Len(calls') = Len(calls) - 1 /\ DOMAIN calls' = 1 .. Len(calls) - 1
      /\ \A i \in 1 .. Len(calls) - 1 : calls'[i] = calls[i + 1]
  BY CallFacts
<1>1. PICK z \in Nat : /\ z = Len(calls') /\ z + 1 \in Nat \ {0}
                       /\ (z + 1) + 1 = Len(calls) + 1
  <2>1. Len(calls') \in Nat
    BY <1>0
  <2>2. PICK z \in Nat : z = Len(calls')
    BY <2>1
  <2>3. z = Len(calls) - 1 /\ Len(calls) \in Nat
    BY <1>0, <2>2
  <2> QED
    BY <2>2, <2>3
<1>2. \A k \in Nat \ {0} : CertBefore(a, k + 1) => CertBefore(a, k)'
  BY BeforeShift
<1>3. \A k \in DataOf(a)' : k \in Nat \ {0} /\ k + 1 \in DataOf(a) /\ calls'[k] = calls[k + 1]
  BY <1>0 DEF DataOf
<1>4. \A k \in DataOf(a)' : /\ Follows(calls'[k].data)
                            /\ BeginsBehind(calls'[k].data) => CertBefore(a, k)'
  BY <1>2, <1>3 DEF CertOf, CallsFollow
<1>5. CertBefore(a, Len(calls) + 1) => CertBefore(a, z + 1)'
  BY <1>1, <1>2
<1>6. /\ Follows(buffer[a])
      /\ BeginsBehind(buffer[a]) => CertBefore(a, Len(calls) + 1)
      /\ last[a] = "cert" => \/ EndsInCert(buffer[a])
                             \/ Len(buffer[a]) = 0 /\ CertBefore(a, Len(calls) + 1)
  BY DEF CertOf, BufferFollows
<1> QED
  BY <1>1, <1>4, <1>5, <1>6, CertNext

\* An attempt nobody has heard of has its output to itself.
LEMMA CertFresh ==
  ASSUME LoggerTypeOK, NEW a, a \notin heard, NEW n, NameOf(a)' = n,
         DataOf(a)' = {}, a \in heard' => Len(pending'[n]) = 0,
         buffer'[a] = buffer[a], last'[a] = last[a],
         CertOf(a)
  PROVE  CertOf(a)'
<1>1. \A k : ~CertBefore(a, k)
  BY DEF CertBefore
<1>2. /\ Follows(buffer[a]) /\ ~BeginsBehind(buffer[a])
      /\ last[a] = "cert" => EndsInCert(buffer[a])
  BY <1>1 DEF CertOf, BufferFollows
<1>3. a \in heard' => Follows(pending'[n]) /\ ~BeginsBehind(pending'[n])
  BY DEF Follows, BeginsBehind
<1>4. PICK z : z = Len(calls')
  OBVIOUS
<1> QED
  BY <1>2, <1>3, <1>4, CertNext

LEMMA UnheardData ==
  ASSUME QueueInv, NEW a, a \notin heard
  PROVE  DataOf(a) = {}
BY DEF QueueInv, Expected, DataOf

LEMMA AppendFollows ==
  ASSUME NEW p \in Seq(Output), NEW x \in Output
  PROVE  /\ Follows(p) /\ (x.line \in {"denied", "detail"} /\ Len(p) > 0 => EndsInCert(p))
              => Follows(Append(p, x))
         /\ BeginsBehind(Append(p, x))
              => BeginsBehind(p) \/ (Len(p) = 0 /\ x.line \in {"denied", "detail"})
         /\ x.line \in {"cert", "detail"} => EndsInCert(Append(p, x))
<1> DEFINE q == <<x>>
<1>1. q \in Seq(Output) /\ Len(q) = 1 /\ q[1] = x /\ DOMAIN q = {1}
  OBVIOUS
<1>2. Append(p, x) = p \o q
  BY AppendIsConcat
<1> HIDE DEF q
<1>3. BeginsBehind(q) <=> x.line \in {"denied", "detail"}
  BY <1>1 DEF BeginsBehind
<1>4. EndsInCert(q) <=> x.line \in {"cert", "detail"}
  BY <1>1 DEF EndsInCert
<1>5. Follows(q)
  BY <1>1, <1>3 DEF Follows
<1> QED
  BY <1>1, <1>2, <1>3, <1>4, <1>5, ConcatFollows

LEMMA CertPrints ==
  ASSUME LoggerTypeOK, QueueInv, CertInv, NEW a \in Started, NEW l \in Lines, ChildPrints(a, l)
  PROVE  CertInv'
<1> DEFINE x == [by |-> a, line |-> l]
<1>1. /\ UNCHANGED <<started, calls, handled, lost, heard, log, pending, overlapped, mixed,
                     swallowed>>
      /\ a \in Attempts /\ x \in Output
      /\ \A b \in Attempts \ {a} : last'[b] = last[b] /\ buffer'[b] = buffer[b]
      /\ buffer'[a] = Append(buffer[a], x) /\ buffer[a] \in Seq(Output)
      /\ l \in {"denied", "detail"} => last[a] = "cert"
      /\ last'[a] = "cert" => l \in {"cert", "detail"}
  BY PrintFacts DEF loggerVars
<1>2. x.by = a /\ x.line = l
  OBVIOUS
<1> HIDE DEF x
<1>3. \A b : NameOf(b)' = NameOf(b)
  BY <1>1 DEF NameOf
<1>4. DOMAIN calls = 1 .. Len(calls) /\ Len(calls) \in Nat
  BY CallsOfStarted
<1>5. \A n : HeldInCert(n) => HeldInCert(n)'
  BY <1>1 DEF HeldInCert, EndsInCert
<1>6. Watched' = Watched
  BY <1>1 DEF Watched
<1>7. ASSUME NEW b \in Watched, b # a PROVE CertOf(b)'
  <2>1. b \in Attempts
    BY DEF Watched
  <2>2. CertOf(b)
    BY DEF CertInv
  <2>3. b \in heard => /\ Follows(pending'[NameOf(b)])
                       /\ BeginsBehind(pending'[NameOf(b)]) => log'[NameOf(b)].certMode
    BY <1>1, <2>2 DEF CertOf, HeldFollows
  <2>4. buffer'[b] = buffer[b] /\ last'[b] = last[b]
    BY <1>1, <1>7, <2>1
  <2>5. PICK z \in Nat : z = Len(calls)
    BY <1>4
  <2>6. /\ z = Len(calls') /\ Len(calls) <= z /\ DOMAIN calls' = 1 .. z
        /\ \A i \in 1 .. Len(calls) : calls'[i] = calls[i] /\ DOMAIN calls' \ DOMAIN calls = {}
    BY <1>1, <1>4, <2>5
  <2>7. PICK n : n = NameOf(b)
    OBVIOUS
  <2> QED
    BY <1>1, <1>3, <1>5, <2>2, <2>3, <2>4, <2>5, <2>6, <2>7, CertKept
<1>8. ASSUME a \in Watched PROVE CertOf(a)'
  <2>1. PICK n : n = NameOf(a)
    OBVIOUS
  <2>2. NameOf(a)' = n
    BY <1>3, <2>1
  <2>3. PICK z : z = Len(calls)
    OBVIOUS
  <2>4. z = Len(calls') /\ DataOf(a)' = DataOf(a)
    BY <1>1, <2>3 DEF DataOf
  <2>5. \A k : CertBefore(a, k) => CertBefore(a, k)'
    <3> SUFFICES ASSUME NEW k, CertBefore(a, k) PROVE CertBefore(a, k)'
      OBVIOUS
    <3>1. a \in heard'
      BY <1>1 DEF CertBefore
    <3> QED
      BY <1>1, <1>5, <2>1, <2>2, <2>4, <3>1, BeforeKept
  <2>6. CertOf(a)
    BY <1>8 DEF CertInv
  <2>7. /\ Follows(buffer[a])
        /\ BeginsBehind(buffer[a]) => CertBefore(a, z + 1)
        /\ last[a] = "cert" => \/ EndsInCert(buffer[a])
                               \/ Len(buffer[a]) = 0 /\ CertBefore(a, z + 1)
    BY <2>3, <2>6 DEF CertOf, BufferFollows
  <2>8. EndsInCert(buffer[a]) => Len(buffer[a]) # 0
    BY DEF EndsInCert
  <2>9. Len(buffer[a]) \in Nat
    BY <1>1
  <2>10. Follows(buffer'[a]) /\ (BeginsBehind(buffer'[a]) => CertBefore(a, z + 1))
    BY <1>1, <1>2, <2>7, <2>8, <2>9, AppendFollows
  <2>11. last'[a] = "cert" => EndsInCert(buffer'[a])
    BY <1>1, <1>2, AppendFollows
  <2>12. a \in heard' => /\ Follows(pending'[n])
                         /\ BeginsBehind(pending'[n]) => log'[n].certMode
    BY <1>1, <2>1, <2>6 DEF CertOf, HeldFollows
  <2>13. \A k \in DataOf(a)' : /\ Follows(calls'[k].data)
                               /\ BeginsBehind(calls'[k].data) => CertBefore(a, k)'
    BY <1>1, <2>4, <2>5, <2>6 DEF CertOf, CallsFollow
  <2> QED
    BY <2>2, <2>4, <2>5, <2>10, <2>11, <2>12, <2>13, CertNext
<1> QED
  BY <1>6, <1>7, <1>8 DEF CertInv

\* The logger is left alone, and at most the queue grows, by something other than
\* output of the attempt.
LEMMA CertQueued ==
  ASSUME LoggerTypeOK, QueueInv, CertInv, NEW b \in Watched, NameOf(b)' = NameOf(b),
         UNCHANGED <<last, heard, log, pending>>, buffer'[b] = buffer[b],
         \/ UNCHANGED calls
         \/ \E do, c, data : calls' = Post(do, c, data) /\ (do # "data" \/ c # b)
  PROVE  CertOf(b)'
<1>1. DOMAIN calls = 1 .. Len(calls) /\ Len(calls) \in Nat
  BY CallsOfStarted
<1>2. PICK z \in Nat :
        /\ z = Len(calls') /\ Len(calls) <= z /\ DOMAIN calls' = 1 .. z
        /\ \A i \in 1 .. Len(calls) : calls'[i] = calls[i]
        /\ \A i \in DOMAIN calls' \ DOMAIN calls : calls'[i].do # "data" \/ calls'[i].of # b
  <2> DEFINE P(z) == /\ z = Len(calls') /\ Len(calls) <= z /\ DOMAIN calls' = 1 .. z
                     /\ \A i \in 1 .. Len(calls) : calls'[i] = calls[i]
                     /\ \A i \in DOMAIN calls' \ DOMAIN calls :
                          calls'[i].do # "data" \/ calls'[i].of # b
  <2>1. ASSUME UNCHANGED calls PROVE \E z \in Nat : P(z)
    <3>1. DOMAIN calls' \ DOMAIN calls = {}
      BY <2>1
    <3>2. Len(calls') = Len(calls) /\ DOMAIN calls' = 1 .. Len(calls)
      BY <1>1, <2>1
    <3>3. \A i \in 1 .. Len(calls) : calls'[i] = calls[i]
      BY <2>1
    <3>4. PICK z \in Nat : z = Len(calls)
      BY <1>1
    <3>5. z = Len(calls') /\ Len(calls) <= z /\ DOMAIN calls' = 1 .. z
      BY <3>2, <3>4
    <3>6. P(z)
      BY <3>1, <3>3, <3>5
    <3> HIDE DEF P
    <3> QED
      BY <3>6
  <2>2. ASSUME NEW do, NEW c, NEW data, calls' = Post(do, c, data), do # "data" \/ c # b
        PROVE  \E z \in Nat : P(z)
    <3>1. /\ DOMAIN calls' = 1 .. Len(calls) + 1
          /\ \A i \in 1 .. Len(calls) : calls'[i] = calls[i]
          /\ calls'[Len(calls) + 1] = [do |-> do, of |-> c, data |-> data]
          /\ Len(calls') = Len(calls) + 1
      BY <2>2, PostEnd
    <3>2. calls'[Len(calls) + 1].do = do /\ calls'[Len(calls) + 1].of = c
      BY <3>1
    <3>3. \A i \in DOMAIN calls' \ DOMAIN calls : i = Len(calls) + 1
      BY <1>1, <3>1
    <3>4. \A i \in DOMAIN calls' \ DOMAIN calls : calls'[i].do # "data" \/ calls'[i].of # b
      BY <2>2, <3>2, <3>3
    <3>5. PICK z \in Nat : z = Len(calls) + 1
      BY <1>1
    <3> QED
      BY <1>1, <3>1, <3>4, <3>5
  <2> QED
    BY <2>1, <2>2
<1>3. CertOf(b)
  BY DEF CertInv
<1>4. PICK n : n = NameOf(b)
  OBVIOUS
<1>5. HeldInCert(n) => HeldInCert(n)'
  BY DEF HeldInCert, EndsInCert
<1>6. b \in heard => /\ Follows(pending'[n])
                     /\ BeginsBehind(pending'[n]) => log'[n].certMode
  BY <1>3, <1>4 DEF CertOf, HeldFollows
<1> QED
  BY <1>2, <1>3, <1>4, <1>5, <1>6, CertKept

LEMMA CertOutside ==
  ASSUME LoggerTypeOK, ProcessInv, QueueInv, LogInv, OverlapInv, CertInv, Outside
  PROVE  CertInv'
<1>0. /\ UNCHANGED <<heard, log, pending, overlapped, mixed, swallowed, handled>>
      /\ Started \subseteq Started' /\ lost \subseteq lost'
      /\ \A c \in Started : NameOf(c)' = NameOf(c)
  BY OutsideFacts DEF keptVars
<1>1. /\ Started \subseteq Attempts /\ buffer \in [Attempts -> Seq(Output)] /\ heard \subseteq Started
      /\ DOMAIN calls = 1 .. Len(calls)
  BY TypeParts, AttemptTypes, CallsOfStarted DEF OuterTypes, QueueInv
<1>2. Watched' \subseteq Watched /\ Watched \subseteq Attempts
  BY <1>0 DEF Watched
<1>3. ASSUME NEW n \in Names, StartVPN(n) PROVE CertInv'
  <2>1. UNCHANGED <<last, buffer>>
    BY <1>3, Frames DEF mainVars
  <2>2. PICK c, data : calls' = Post("add", c, data)
    BY <1>3, StartFacts
  <2>3. ASSUME NEW b \in Watched, b \in Started PROVE CertOf(b)'
    <3>1. \E do, d, e : calls' = Post(do, d, e) /\ (do # "data" \/ d # b)
      BY <2>2
    <3> QED
      BY <1>0, <2>1, <2>3, <3>1, CertQueued
  <2>4. ASSUME NEW b \in Watched, b \notin Started PROVE CertOf(b)'
    <3>1. b \notin heard /\ b \notin heard' /\ CertOf(b) /\ DataOf(b) = {}
      BY <1>0, <1>1, <2>4, UnheardData DEF CertInv
    <3>2. DataOf(b)' = {}
      <4>1. /\ DOMAIN calls' = 1 .. Len(calls) + 1
            /\ \A i \in 1 .. Len(calls) : calls'[i] = calls[i]
            /\ calls'[Len(calls) + 1] = [do |-> "add", of |-> c, data |-> data]
        BY <2>2, PostEnd
      <4>2. calls'[Len(calls) + 1].do = "add" /\ Len(calls) \in Nat
        BY <4>1, CallsOfStarted
      <4> QED
        BY <1>1, <3>1, <4>1, <4>2 DEF DataOf
    <3>3. PICK m : m = NameOf(b)'
      OBVIOUS
    <3>4. NameOf(b)' = m
      BY <3>3
    <3> QED
      BY <2>1, <3>1, <3>2, <3>4, CertFresh
  <2> QED
    BY <1>2, <2>3, <2>4 DEF CertInv
\* The names stay from here on.
<1>9. ASSUME UNCHANGED started PROVE \A b : NameOf(b)' = NameOf(b)
  BY <1>9 DEF NameOf
<1>4. ASSUME NEW a \in Started, ChildEnds(a) \/ Answer(a) PROVE CertInv'
  <2>1. UNCHANGED <<started, last, buffer, calls>>
    BY <1>4 DEF ChildEnds, Answer, mainVars
  <2>2. \A b \in Watched : CertOf(b)'
    BY <1>0, <1>9, <2>1, CertQueued
  <2> QED
    BY <1>2, <2>2 DEF CertInv
<1>5. ASSUME NEW a \in Started, Finished(a) PROVE CertInv'
  <2>1. UNCHANGED <<started, last, buffer>>
    BY <1>5, Frames DEF Finished, mainVars
  <2>2. UNCHANGED calls \/ \E do, c, data : calls' = Post(do, c, data) /\ do # "data"
    <3>1. UNCHANGED calls \/ calls' = Post("finished", a, <<>>)
      BY <1>5 DEF Finished
    <3> QED
      BY <3>1
  <2>3. \A b \in Watched : CertOf(b)'
    BY <1>0, <1>9, <2>1, <2>2, CertQueued
  <2> QED
    BY <1>2, <2>3 DEF CertInv
<1>6. ASSUME NEW a \in Started, ReadyRead(a) PROVE CertInv'
  <2>1. UNCHANGED <<started, last>> /\ a \in arrived /\ a \in Attempts
    BY <1>1, <1>6, Frames DEF ReadyRead
  <2>2. \A b \in Attempts \ {a} : buffer'[b] = buffer[b]
    <3>1. buffer' = buffer \/ buffer' = [buffer EXCEPT ![a] = <<>>]
      BY <1>6 DEF ReadyRead
    <3> QED
      BY <1>1, <3>1
  <2>3. UNCHANGED calls \/ calls' = Post("data", a, buffer[a])
    BY <1>6 DEF ReadyRead
  <2>4. ASSUME NEW b \in Watched, b # a PROVE CertOf(b)'
    <3>1. \/ UNCHANGED calls
          \/ \E do, c, data : calls' = Post(do, c, data) /\ (do # "data" \/ c # b)
      BY <2>3, <2>4
    <3>2. buffer'[b] = buffer[b]
      BY <1>2, <2>2, <2>4
    <3> QED
      BY <1>0, <1>9, <2>1, <3>1, <3>2, CertQueued
  <2>5. ASSUME a \in Watched PROVE CertOf(a)'
    <3>1. CASE a \notin heard
      <4>1. UNCHANGED <<buffer, calls>>
        BY <1>6, <3>1 DEF ReadyRead
      <4> QED
        BY <1>0, <1>9, <2>1, <2>5, <4>1, CertQueued
    <3>2. CASE a \in heard
      <4>1. calls' = Post("data", a, buffer[a]) /\ buffer'[a] = <<>>
        BY <1>1, <1>6, <2>1, <3>2 DEF ReadyRead
      <4>2. PICK n : n = NameOf(a)
        OBVIOUS
      <4>3. PICK y : y = Len(calls)
        OBVIOUS
      <4>4. /\ y \in Nat /\ DOMAIN calls = 1 .. y /\ DOMAIN calls' = 1 .. y + 1
            /\ Len(calls') = y + 1
            /\ \A i \in 1 .. y : calls'[i] = calls[i]
            /\ calls'[y + 1] = [do |-> "data", of |-> a, data |-> buffer[a]]
        BY <4>1, <4>3, PostEnd
      <4>5. calls'[y + 1].do = "data" /\ calls'[y + 1].of = a /\ calls'[y + 1].data = buffer[a]
        BY <4>4
      <4>6. /\ \A i \in DataOf(a)' : (i \in DataOf(a) /\ i < y + 1 /\ calls'[i] = calls[i]) \/ i = y + 1
            /\ \A i \in DataOf(a) : i \in DataOf(a)' /\ i < y + 1 /\ calls'[i] = calls[i]
            /\ y + 1 \in DataOf(a)'
        BY <4>4, <4>5 DEF DataOf
      <4>7. HeldInCert(n) => HeldInCert(n)'
        BY <1>0 DEF HeldInCert, EndsInCert
      <4>8. NameOf(a)' = n /\ a \in heard'
        BY <1>0, <3>2, <4>2
      <4>9. ASSUME NEW k \in 1 .. y + 1, CertBefore(a, k) PROVE CertBefore(a, k)'
        <5>1. /\ \A i \in DataOf(a)' : i < k => i \in DataOf(a) /\ calls'[i] = calls[i]
              /\ \A i \in DataOf(a) : i < k => i \in DataOf(a)' /\ calls'[i] = calls[i]
          BY <4>4, <4>6, <4>9
        <5> QED
          BY <4>2, <4>7, <4>8, <4>9, <5>1, BeforeKept
      <4>10. /\ Follows(buffer[a]) /\ (BeginsBehind(buffer[a]) => CertBefore(a, y + 1))
             /\ last[a] = "cert" => \/ EndsInCert(buffer[a])
                                    \/ Len(buffer[a]) = 0 /\ CertBefore(a, y + 1)
             /\ CallsFollow(a) /\ HeldFollows(n)
        BY <2>5, <3>2, <4>2, <4>3 DEF CertInv, CertOf, BufferFollows
      <4>11. \A k \in DataOf(a)' : /\ Follows(calls'[k].data)
                                   /\ BeginsBehind(calls'[k].data) => CertBefore(a, k)'
        <5> TAKE k \in DataOf(a)'
        <5>1. CASE k = y + 1
          <6>1. k \in 1 .. y + 1
            BY <4>4, <5>1
          <6> QED
            BY <4>5, <4>9, <4>10, <5>1, <6>1
        <5>2. CASE k # y + 1
          <6>1. k \in DataOf(a) /\ calls'[k] = calls[k] /\ k \in 1 .. y + 1
            BY <4>4, <4>6, <5>2 DEF DataOf
          <6> QED
            BY <4>9, <4>10, <6>1 DEF CallsFollow
        <5> QED
          BY <5>1, <5>2
      <4>12. Len(buffer[a]) # 0
        <5>1. buffer[a] # <<>> /\ buffer[a] \in Seq(Output)
          BY <1>1, <2>1 DEF ProcessInv
        <5> QED
          BY <5>1, EmptySeq
      \* What was at the end of the buffer is at the end of the last call.
      <4>13. last'[a] = "cert" => CertBefore(a, y + 2)'
        <5> SUFFICES ASSUME last'[a] = "cert" PROVE CertBefore(a, y + 2)'
          OBVIOUS
        <5>1. EndsInCert(calls'[y + 1].data)
          BY <2>1, <4>5, <4>10, <4>12
        <5>2. y + 1 < y + 2 /\ \A i \in DataOf(a)' : i < y + 2 => i <= y + 1
          BY <4>4, <4>6 DEF DataOf
        <5> QED
          BY <4>6, <4>8, <5>1, <5>2, BeforeNext
      <4>14. Follows(buffer'[a]) /\ ~BeginsBehind(buffer'[a]) /\ Len(buffer'[a]) = 0
        BY <4>1 DEF Follows, BeginsBehind
      <4>15. /\ Follows(pending'[n])
             /\ BeginsBehind(pending'[n]) => log'[n].certMode
        BY <1>0, <4>10 DEF HeldFollows
      <4>16. PICK z : z = y + 1
        OBVIOUS
      <4>17. z = Len(calls') /\ z + 1 = y + 2
        BY <4>4, <4>16
      <4> QED
        BY <4>8, <4>11, <4>13, <4>14, <4>15, <4>17, CertNext
    <3> QED
      BY <3>1, <3>2
  <2> QED
    BY <1>2, <2>4, <2>5 DEF CertInv
<1>7. ASSUME UNCHANGED vars PROVE CertInv'
  <2>1. UNCHANGED <<started, last, buffer, calls>>
    BY <1>7 DEF vars, processVars, mainVars
  <2>2. \A b \in Watched : CertOf(b)'
    BY <1>0, <1>9, <2>1, CertQueued
  <2> QED
    BY <1>2, <2>2 DEF CertInv
<1> QED
  BY <1>3, <1>4, <1>5, <1>6, <1>7, CertPrints DEF Outside, ProcessAction

\* addVPN() forgets the mode only of a name nobody else is expected of.
LEMMA CertAdd ==
  ASSUME LoggerTypeOK, QueueInv, LogInv, CertInv, NEW c \in Started, AddVPN(c)
  PROVE  CertInv'
<1>1. /\ UNCHANGED <<last, buffer, lost, started>>
      /\ \A b : NameOf(b)' = NameOf(b)
  BY InsideFacts
<1>2. /\ UNCHANGED <<pending, mixed, swallowed, handled>>
      /\ c \notin heard /\ heard' = heard \union {c} /\ overlapped \subseteq overlapped'
      /\ \A b \in Expected : NameOf(b) = NameOf(c) => {c, b} \subseteq overlapped'
      /\ \A n \in Names \ {NameOf(c)} : log'[n] = log[n]
  BY AddFacts
<1>3. Call("add", c)
  BY DEF AddVPN
<1>4. /\ calls[1].do = "add" /\ DOMAIN calls = 1 .. Len(calls) /\ Len(calls) \in Nat
      /\ DOMAIN calls' = 1 .. Len(calls) - 1
      /\ \A i \in 1 .. Len(calls) - 1 : calls'[i] = calls[i + 1]
  BY <1>3, CallFacts
<1>5. heard \subseteq Started /\ \A b \in Started : NameOf(b) \in Names
  BY AttemptTypes DEF QueueInv
<1> SUFFICES ASSUME NEW a \in Watched' PROVE CertOf(a)'
  BY DEF CertInv
<1>6. a \in Watched /\ a \notin overlapped'
  BY <1>1, <1>2 DEF Watched
<1>7. CertOf(a)
  BY <1>6 DEF CertInv
<1>8. PICK n : n = NameOf(a)
  OBVIOUS
<1>9. NameOf(a)' = n /\ (a \in heard \union {c} => n \in Names)
  BY <1>1, <1>5, <1>8
<1>10. CASE a \notin heard
  <2>1. DataOf(a)' = {}
    <3>1. DataOf(a) = {}
      BY <1>10, UnheardData
    <3> QED
      BY <1>4, <3>1 DEF DataOf
  <2>2. a \in heard' => Len(pending'[n]) = 0
    <3> SUFFICES ASSUME a \in heard' PROVE Len(pending[n]) = 0
      BY <1>2
    <3>1. a = c
      BY <1>2, <1>10
    <3>7. n \in Names
      BY <1>9, <3>1
    <3>2. \A b \in Live(n) : FALSE
      BY <1>2, <1>6, <1>8, <3>1 DEF Live
    <3>3. DOMAIN pending[n] = {}
      BY <3>2, <3>7 DEF LogInv, WrittenBy
    <3>4. pending[n] \in Seq(Output)
      BY <3>7, TypeParts DEF InnerTypes
    <3>5. Len(pending[n]) \in Nat /\ DOMAIN pending[n] = 1 .. Len(pending[n])
      BY <3>4
    <3>6. 1 \notin DOMAIN pending[n]
      BY <3>3
    <3> QED
      BY <3>5, <3>6
  <2> QED
    BY <1>1, <1>7, <1>9, <1>10, <2>1, <2>2, CertFresh
<1>11. CASE a \in heard
  <2>1. a \in Expected
    BY <1>6, <1>11 DEF Watched, Expected
  <2>2. n # NameOf(c)
    BY <1>2, <1>6, <1>8, <2>1
  <2>3. log'[n] = log[n] /\ pending'[n] = pending[n]
    BY <1>2, <1>9, <1>11, <2>2
  <2>4. 1 \notin DataOf(a)
    BY <1>4 DEF DataOf
  <2>5. HeldInCert(n) => HeldInCert(n)'
    BY <2>3 DEF HeldInCert, EndsInCert
  <2>6. Follows(pending'[n]) /\ (BeginsBehind(pending'[n]) => log'[n].certMode)
    BY <1>7, <1>8, <1>11, <2>3 DEF CertOf, HeldFollows
  <2>7. a \in heard'
    BY <1>2, <1>11
  <2> QED
    BY <1>1, <1>3, <1>7, <1>8, <1>9, <1>11, <2>4, <2>5, <2>6, <2>7, CertShifted
<1> QED
  BY <1>10, <1>11

\* flushPending() leaves the mode on where a refused certificate was the last.
LEMMA CertFlush ==
  ASSUME LoggerTypeOK, QueueInv, LogInv, OverlapInv, Listening, CertInv, FlushPending
  PROVE  CertInv'
<1>1. UNCHANGED <<started, last, buffer, lost, handled, heard, overlapped, calls>>
  BY DEF FlushPending, processVars, mainVars
<1>2. /\ log' = [n \in Names |-> LogAfter(n, pending[n])]
      /\ pending' = [n \in Names |-> <<>>]
      /\ mixed' = mixed \union UNION {MixedUp(n, pending[n]) : n \in Names}
      /\ swallowed' = swallowed \union UNION {Swallowed(n, pending[n]) : n \in Names}
  BY DEF FlushPending
<1> SUFFICES ASSUME NEW a \in Watched' PROVE CertOf(a)'
  BY DEF CertInv
<1>3. a \in Watched /\ a \notin mixed' /\ a \notin swallowed'
  BY <1>1, <1>2 DEF Watched
<1>4. CertOf(a)
  BY <1>3 DEF CertInv
<1>5. PICK n : n = NameOf(a)
  OBVIOUS
<1>6. NameOf(a)' = n
  BY <1>1, <1>5 DEF NameOf
<1>7. ASSUME a \in heard
      PROVE  /\ Follows(pending'[n])
             /\ BeginsBehind(pending'[n]) => log'[n].certMode
             /\ HeldInCert(n) => HeldInCert(n)'
  <2>1. n \in Names
    BY <1>5, <1>7, AttemptTypes DEF QueueInv
  <2>2. PICK chunk : chunk = pending[n]
    OBVIOUS
  <2>3. /\ log'[n] = LogAfter(n, chunk) /\ pending'[n] = <<>>
        /\ Piece(n, chunk) /\ a \notin MixedUp(n, chunk) /\ a \notin Swallowed(n, chunk)
    BY <1>2, <1>3, <2>1, <2>2, PendingPiece
  <2>4. ASSUME HeldInCert(n) PROVE HeldInCert(n)'
    <3>1. a \in Live(n)
      BY <1>3, <1>5, <1>7 DEF Live, Expected, Watched
    <3>2. EndsInCert(chunk) \/ (Len(chunk) = 0 /\ log[n].certMode)
      BY <2>2, <2>4 DEF HeldInCert
    <3>3. LogAfter(n, chunk).certMode
      BY <1>3, <2>1, <2>3, <3>1, <3>2, ModeKept
    <3>4. Len(pending'[n]) = 0 /\ log'[n].certMode
      BY <2>3, <3>3
    <3> QED
      BY <3>4 DEF HeldInCert
  <2>5. Follows(pending'[n]) /\ ~BeginsBehind(pending'[n])
    BY <2>3 DEF Follows, BeginsBehind
  <2> QED
    BY <2>4, <2>5
<1>8. DOMAIN calls = 1 .. Len(calls) /\ Len(calls) \in Nat
  BY CallsOfStarted
<1>9. PICK z \in Nat : z = Len(calls)
  BY <1>8
<1>10. /\ z = Len(calls') /\ Len(calls) <= z /\ DOMAIN calls' = 1 .. z
       /\ \A i \in 1 .. Len(calls) : calls'[i] = calls[i]
       /\ DOMAIN calls' \ DOMAIN calls = {}
  BY <1>1, <1>8, <1>9
<1> QED
  BY <1>1, <1>4, <1>5, <1>6, <1>7, <1>10, CertKept

\* A call that is about another name, or comes too early, changes nothing.
LEMMA CertElse ==
  ASSUME LoggerTypeOK, QueueInv, CertInv, NEW do, NEW c, Call(do, c),
         UNCHANGED <<started, last, buffer, heard>>,
         NEW a \in Watched, NEW n, n = NameOf(a),
         a \in heard => a # c /\ pending'[n] = pending[n] /\ log'[n] = log[n]
  PROVE  CertOf(a)'
<1>1. /\ calls[1].of = c /\ DOMAIN calls = 1 .. Len(calls) /\ Len(calls) \in Nat
      /\ DOMAIN calls' = 1 .. Len(calls) - 1
      /\ \A i \in 1 .. Len(calls) - 1 : calls'[i] = calls[i + 1]
  BY CallFacts
<1>2. CertOf(a) /\ NameOf(a)' = n
  BY DEF CertInv, NameOf
<1>3. CASE a \notin heard
  <2>1. DataOf(a) = {}
    BY <1>3, UnheardData
  <2>2. DataOf(a)' = {}
    <3> SUFFICES ASSUME NEW i \in DataOf(a)' PROVE FALSE
      OBVIOUS
    <3>1. i \in 1 .. Len(calls) - 1 /\ calls'[i].do = "data" /\ calls'[i].of = a
      BY <1>1 DEF DataOf
    <3>2. i + 1 \in DOMAIN calls /\ calls'[i] = calls[i + 1]
      BY <1>1, <3>1
    <3>3. i + 1 \in DataOf(a)
      BY <3>1, <3>2 DEF DataOf
    <3> QED
      BY <2>1, <3>3
  <2> QED
    BY <1>2, <1>3, <2>2, CertFresh
<1>4. CASE a \in heard
  <2>1. 1 \notin DataOf(a)
    BY <1>1, <1>4 DEF DataOf
  <2>2. HeldInCert(n) => HeldInCert(n)'
    BY <1>4 DEF HeldInCert, EndsInCert
  <2>3. Follows(pending'[n]) /\ (BeginsBehind(pending'[n]) => log'[n].certMode)
    BY <1>2, <1>4 DEF CertOf, HeldFollows
  <2> QED
    BY <1>2, <1>4, <2>1, <2>2, <2>3, CertShifted
<1> QED
  BY <1>3, <1>4

\* logVPNData() puts the output behind what was collected, or processes both.
LEMMA CertData ==
  ASSUME LoggerTypeOK, QueueInv, LogInv, OverlapInv, Listening, CertInv,
         NEW a \in Started, LogVPNData(a), a \in Watched, a \notin mixed',
         a \notin swallowed'
  PROVE  CertOf(a)'
<1>1. UNCHANGED <<started, last, buffer, heard>>
  BY DEF LogVPNData, processVars, mainVars
<1>2. PICK n : n = NameOf(a)
  OBVIOUS
<1>3. PICK p, q, data : p = pending[n] /\ q = calls[1].data /\ data = p \o q
  OBVIOUS
<1>4. /\ n \in Names /\ a \in Expected /\ a \in heard /\ a \in Live(n) /\ Call("data", a)
      /\ p \in Seq(Output) /\ q \in Seq(Output) /\ data = pending[n] \o Head(calls).data
      /\ Piece(n, data)
  BY <1>2, <1>3, DataFacts, DataPiece DEF Expected, Live
<1>5. 1 \in DataOf(a)
  BY <1>4, CallFacts DEF DataOf
<1>6. CertOf(a) /\ NameOf(a)' = n
  BY <1>1, <1>2 DEF CertInv, NameOf
<1>7. EndsInCert(q) => EndsInCert(data)
  BY <1>3, <1>4, ConcatFollows
<1>8. log \in [Names -> Logs] /\ pending \in [Names -> Seq(Output)]
  BY TypeParts DEF InnerTypes
<1>9. CASE Len(data) >= Full
  <2>1. /\ ProcessOutput(n, data) /\ log' = [log EXCEPT ![n] = LogAfter(n, data)]
        /\ pending' = [pending EXCEPT ![n] = <<>>]
    BY <1>2, <1>4, <1>9 DEF LogVPNData
  <2>2. log'[n] = LogAfter(n, data) /\ pending'[n] = <<>>
    BY <1>4, <1>8, <2>1
  <2>3. a \notin MixedUp(n, data) /\ a \notin Swallowed(n, data)
    BY <2>1 DEF ProcessOutput
  <2>4. EndsInCert(q) => HeldInCert(n)'
    <3> SUFFICES ASSUME EndsInCert(q) PROVE HeldInCert(n)'
      OBVIOUS
    <3>1. LogAfter(n, data).certMode
      BY <1>4, <1>7, <2>3, ModeKept
    <3>2. Len(pending'[n]) = 0 /\ log'[n].certMode
      BY <2>2, <3>1
    <3> QED
      BY <3>2 DEF HeldInCert
  <2>5. Follows(pending'[n]) /\ ~BeginsBehind(pending'[n])
    BY <2>2 DEF Follows, BeginsBehind
  <2> QED
    BY <1>1, <1>2, <1>3, <1>4, <1>5, <1>6, <2>4, <2>5, CertShifted
<1>10. CASE ~(Len(data) >= Full)
  <2>1. /\ pending' = [pending EXCEPT ![n] = data]
        /\ UNCHANGED log
    BY <1>2, <1>4, <1>10 DEF LogVPNData
  <2>2. pending'[n] = data
    BY <1>4, <1>8, <2>1
  <2>3. Follows(data) /\ (BeginsBehind(data) => log[n].certMode)
    BY <1>4 DEF Piece
  <2>4. EndsInCert(q) => HeldInCert(n)'
    BY <1>7, <2>2 DEF HeldInCert, EndsInCert
  <2> QED
    BY <1>1, <1>2, <1>3, <1>4, <1>5, <1>6, <2>1, <2>2, <2>3, <2>4, CertShifted
<1> QED
  BY <1>9, <1>10

LEMMA CertTakes ==
  ASSUME LoggerTypeOK, QueueInv, LogInv, OverlapInv, Listening, CertInv,
         NEW c \in Started, LogVPNData(c) \/ ProcFinished(c)
  PROVE  CertInv'
<1>1. UNCHANGED <<started, last, buffer, lost, heard, overlapped>>
  BY DEF LogVPNData, ProcFinished, processVars, mainVars
<1>2. mixed \subseteq mixed' /\ swallowed \subseteq swallowed' /\ handled \subseteq handled'
  BY DEF LogVPNData, ProcFinished, ProcessOutput
<1>3. /\ c \in Expected /\ NameOf(c) \in Names
      /\ ProcFinished(c) => c \in handled'
  BY DataFacts, EndFacts, AttemptTypes
<1>4. PICK do : Call(do, c)
  BY DEF LogVPNData, ProcFinished
<1>5. /\ \/ pending' = [pending EXCEPT ![NameOf(c)] = <<>>]
         \/ \E data : pending' = [pending EXCEPT ![NameOf(c)] = data]
      /\ UNCHANGED log \/ \E l : log' = [log EXCEPT ![NameOf(c)] = l]
  BY DEF LogVPNData, ProcFinished
<1>6. log \in [Names -> Logs] /\ pending \in [Names -> Seq(Output)]
  BY TypeParts DEF InnerTypes
<1>7. \A n \in Names \ {NameOf(c)} : log'[n] = log[n] /\ pending'[n] = pending[n]
  BY <1>5, <1>6
<1>8. heard \subseteq Started /\ \A b \in Started : NameOf(b) \in Names
  BY AttemptTypes DEF QueueInv
<1> SUFFICES ASSUME NEW a \in Watched' PROVE CertOf(a)'
  BY DEF CertInv
<1>9. /\ a \in Watched /\ a \notin overlapped
      /\ a \notin mixed' /\ a \notin swallowed' /\ a \notin handled'
  BY <1>1, <1>2 DEF Watched
<1>10. CASE a \in heard /\ NameOf(a) = NameOf(c)
  <2>1. a = c
    BY <1>3, <1>9, <1>10, OnlyOne DEF Expected, Watched
  <2>2. LogVPNData(a)
    BY <1>3, <1>9, <2>1
  <2>3. a \in Started /\ a \in Watched /\ a \notin mixed' /\ a \notin swallowed'
    BY <1>9, <2>1
  <2> QED
    BY <2>2, <2>3, CertData
<1>11. CASE ~(a \in heard /\ NameOf(a) = NameOf(c))
  <2>1. PICK n : n = NameOf(a)
    OBVIOUS
  <2>2. a \in heard => n \in Names
    BY <1>8, <2>1
  <2>3. a \in heard => a # c /\ pending'[n] = pending[n] /\ log'[n] = log[n]
    BY <1>7, <1>11, <2>1, <2>2
  <2> QED
    BY <1>1, <1>4, <1>9, <2>1, <2>3, CertElse
<1> QED
  BY <1>10, <1>11

LEMMA CertStep ==
  ASSUME LoggerTypeOK, ProcessInv, QueueInv, LogInv, OverlapInv, Listening, CertInv,
         [Next]_vars
  PROVE  CertInv'
BY TwoSides, CertOutside, CertAdd, CertTakes, CertFlush DEF Processes

\* A login that failed for its certificate is not emitted behind the refusal, and
\* nothing else makes one.
LEMMA RefusedStep ==
  ASSUME LoggerTypeOK, QueueInv, LogInv, OverlapInv, CertInv, RefusedCertIsNotAuth, [Next]_vars
  PROVE  RefusedCertIsNotAuth'
<1>1. ASSUME Outside PROVE RefusedCertIsNotAuth'
  BY <1>1, OutsideFacts DEF RefusedCertIsNotAuth, keptVars
<1>2. ASSUME NEW a \in Started, AddVPN(a) PROVE RefusedCertIsNotAuth'
  <2>1. UNCHANGED <<shown, mixed, swallowed>> /\ overlapped \subseteq overlapped'
    BY <1>2, AddFacts
  <2> QED
    BY <2>1 DEF RefusedCertIsNotAuth
<1>3. ASSUME Processes PROVE RefusedCertIsNotAuth'
  <2>1. UNCHANGED overlapped
    BY <1>3, ProcessesFacts
  <2>2. Work
    BY <1>3, LoggerWorks DEF Processes
  <2> SUFFICES ASSUME NEW s \in shown', s.kind = "denied",
                      s.from \notin overlapped \union mixed' \union swallowed'
               PROVE  FALSE
    BY <2>1 DEF RefusedCertIsNotAuth
  <2>3. s.from \notin mixed /\ s.from \notin swallowed
    BY <2>2 DEF Work
  <2>4. CASE s \in shown
    BY <2>3, <2>4 DEF RefusedCertIsNotAuth
  <2>5. CASE s \notin shown
    <3>1. PICK n \in Names, chunk \in Seq(Output) :
            Processed(n, chunk) /\ s \in EmittedBy(n, chunk)
      BY <2>2, <2>5 DEF Work
    <3>2. Piece(n, chunk)
      BY <3>1 DEF Processed
    <3>3. s.from \in Live(n)
      BY <3>1, <3>2, EmittedFor
    <3>4. s.from \in Watched
      BY <2>3, <3>3, AttemptTypes DEF Watched, Live, Expected, QueueInv
    <3>5. Follows(chunk) /\ (BeginsBehind(chunk) => log[n].certMode)
      BY <3>2, <3>3, <3>4 DEF Piece
    <3>6. ~CertFlow(n, chunk) /\ \E i \in DOMAIN chunk : chunk[i].line = "denied"
      BY <3>1, EmittedFacts
    <3>7. ~log[n].certMode /\ \A i \in DOMAIN chunk : chunk[i].line # "cert"
      BY <3>6 DEF CertFlow, Contains, Writers
    <3> QED
      BY <3>5, <3>6, <3>7 DEF Follows
  <2> QED
    BY <2>4, <2>5
<1> QED
  BY <1>1, <1>2, <1>3, TwoSides

-----------------------------------------------------------------------------
(* The theorems.                                                           *)

LEMMA InitLogger == LoggerInit => LoggerInv
<1> SUFFICES ASSUME LoggerInit PROVE LoggerInv
  OBVIOUS
<1>1. /\ started = <<>> /\ heard = {} /\ calls = <<>> /\ arrived = {} /\ shown = {}
      /\ handled = {} /\ lost = {} /\ certFailed = {} /\ overlapped = {} /\ cut = {} /\ mixed = {}
      /\ swallowed = {}
      /\ child = [a \in Attempts |-> "none"] /\ last = [a \in Attempts |-> "none"]
      /\ printed = 0 /\ timer = FALSE
      /\ buffer = [a \in Attempts |-> <<>>] /\ opened = [a \in Attempts |-> 0]
      /\ log = [n \in Names |-> NoLog] /\ pending = [n \in Names |-> <<>>]
  BY DEF LoggerInit
<1>2. /\ Started = {} /\ DOMAIN calls = {} /\ Expected = {} /\ Len(started) = 0
  BY <1>1 DEF Started, Expected
<1>3. \A a \in Attempts : buffer[a] = <<>> /\ last[a] = "none" /\ opened[a] = 0
  BY <1>1
<1>4. \A n \in Names : log[n] = NoLog /\ pending[n] = <<>>
  BY <1>1
<1>5. LoggerTypeOK
  <2>1. <<>> \in Seq(Names) /\ <<>> \in Seq(Output) /\ <<>> \in Seq(CallsOf(Started))
    OBVIOUS
  <2>2. /\ MaxAttempts \in Nat /\ MaxLines \in Nat
    BY LoggerAssumption
  <2>3. OuterTypes
    BY <1>1, <1>2, <2>1, <2>2 DEF OuterTypes, Lasts
  <2>4. InnerTypes
    BY <1>1, <2>1, NoLogType DEF InnerTypes
  <2> QED
    BY <2>3, <2>4, TypeParts
<1>6. ProcessInv
  BY <1>1, <1>3 DEF ProcessInv, WrittenBy
<1>7. QueueInv
  BY <1>1, <1>2 DEF QueueInv
<1>8. LogInv
  <2>1. \A n \in Names : log[n] = NoLog /\ ~log[n].open /\ log[n].certBuffer = <<>>
    BY <1>4, NoLogType
  <2>2. DOMAIN <<>> = {} /\ Len(<<>>) = 0
    OBVIOUS
  <2>3. CertLimit \in Nat
    BY LoggerAssumption
  <2>4. ASSUME NEW n \in Names PROVE Len(log[n].certBuffer) <= CertLimit
    <3>1. log[n].certBuffer = <<>>
      BY <2>1
    <3>2. Len(log[n].certBuffer) = 0
      BY <2>2, <3>1
    <3> QED
      BY <2>3, <3>2
  <2> QED
    BY <1>4, <2>1, <2>2, <2>4 DEF LogInv, WrittenBy
<1>9. OverlapInv /\ Listening /\ Attribution /\ RefusedCertIsNotAuth
  BY <1>1, <1>2 DEF OverlapInv, Listening, Attribution, RefusedCertIsNotAuth
<1>10. BrowserInv
  BY <1>3, <1>4, NoLogType DEF BrowserInv
<1>11. CertInv
  <2> SUFFICES ASSUME NEW a \in Attempts PROVE CertOf(a)
    BY DEF CertInv, Watched
  <2>1. a \notin heard /\ DataOf(a) = {} /\ buffer[a] = <<>> /\ last[a] # "cert"
    BY <1>1, <1>2, <1>3 DEF DataOf
  <2>2. Follows(buffer[a]) /\ ~BeginsBehind(buffer[a])
    BY <2>1 DEF Follows, BeginsBehind
  <2> QED
    BY <2>1, <2>2 DEF CertOf, CallsFollow, BufferFollows
<1> QED
  BY <1>5, <1>6, <1>7, <1>8, <1>9, <1>10, <1>11 DEF LoggerInv

\* The inductive invariant of the logger: what every queued call, buffered line
\* and entry of its maps belongs to.
THEOREM LoggerInvariant == Spec => []LoggerInv
<1>1. LoggerInv /\ [Next]_vars => LoggerInv'
  <2> SUFFICES ASSUME LoggerInv, [Next]_vars PROVE LoggerInv'
    OBVIOUS
  <2>1. /\ LoggerTypeOK /\ ProcessInv /\ QueueInv /\ LogInv /\ OverlapInv /\ Listening
        /\ Attribution /\ BrowserInv /\ CertInv /\ RefusedCertIsNotAuth
    BY DEF LoggerInv
  <2>2. (OuterTypes /\ InnerTypes)'
    BY <2>1, OuterStep, InnerStep
  <2>3. LoggerTypeOK'
    BY <2>2, TypeParts, PTL
  <2>4. ProcessInv' /\ QueueInv' /\ LogInv'
    BY <2>1, ProcessStep, QueueStep, LogStep
  <2>5. OverlapInv' /\ Listening' /\ Attribution' /\ BrowserInv'
    BY <2>1, OverlapStep, ListeningStep, AttributionStep, BrowserStep
  <2>6. CertInv' /\ RefusedCertIsNotAuth'
    BY <2>1, CertStep, RefusedStep
  <2> QED
    BY <2>3, <2>4, <2>5, <2>6 DEF LoggerInv
<1> QED
  BY InitLogger, <1>1, PTL DEF Spec

\* The queued calls, the maps and the output are of the right type.
THEOREM LoggerTyped == Spec => []LoggerTypeOK
<1>1. LoggerInv => LoggerTypeOK
  BY DEF LoggerInv
<1> QED
  BY LoggerInvariant, <1>1, PTL

\* What processOutput() emits names the process whose output it is about, unless
\* two attempts had the name at once.
THEOREM Attributed == Spec => []Attribution
<1>1. LoggerInv => Attribution
  BY DEF LoggerInv
<1> QED
  BY LoggerInvariant, <1>1, PTL

\* From addVPN() to procFinished() the log of the name is open for the process.
THEOREM ListensOn == Spec => []Listening
<1>1. LoggerInv => Listening
  BY DEF LoggerInv
<1> QED
  BY LoggerInvariant, <1>1, PTL

\* A name has a log, a certificate flow or collected output only as long as
\* procFinished() of one of its processes is still to come.
THEOREM StateGoes == Spec => []StateGoesWithProcess
<1>1. ASSUME LoggerInv PROVE StateGoesWithProcess
  <2> SUFFICES ASSUME NEW n \in Names, log[n] # NoLog \/ (pending[n] # <<>> /\ ~timer)
               PROVE  \E a \in heard : NameOf(a) = n /\ a \notin handled
    BY DEF StateGoesWithProcess
  <2>1. LogInv /\ LoggerTypeOK
    BY <1>1 DEF LoggerInv
  <2>2. CASE log[n] # NoLog
    <3>1. log[n].open
      BY <2>1, <2>2 DEF LogInv
    <3> QED
      BY <2>1, <3>1 DEF LogInv
  <2>3. CASE pending[n] # <<>>
    <3>1. pending[n] \in Seq(Output)
      BY <2>1, TypeParts DEF InnerTypes
    <3>2. 1 \in DOMAIN pending[n]
      BY <2>3, <3>1, EmptySeq
    <3>3. pending[n][1].by \in Live(n)
      BY <2>1, <3>2 DEF LogInv, WrittenBy
    <3> QED
      BY <3>3 DEF Live, Expected
  <2> QED
    BY <2>2, <2>3
<1> QED
  BY LoggerInvariant, <1>1, PTL

\* However often the listener of an attempt prints the SAML cue, and wherever the
\* output is cut, processOutput() emits SAMLAuthRequest() once.
THEOREM OneBrowser == Spec => []BrowserOnce
<1>1. LoggerInv => BrowserOnce
  BY DEF LoggerInv, BrowserInv, BrowserOnce
<1> QED
  BY LoggerInvariant, <1>1, PTL

\* However the output of a refused certificate is cut into pieces, the failed login
\* in it is not reported as one, unless a piece ended within it with the mode over
\* already (a connection ended in the same piece, or the text passes the limit), a
\* piece of it was given up for an error, or two attempts had the name at once.
THEOREM CertIsNotAuth == Spec => []RefusedCertIsNotAuth
<1>1. LoggerInv => RefusedCertIsNotAuth
  BY DEF LoggerInv
<1> QED
  BY LoggerInvariant, <1>1, PTL

=============================================================================

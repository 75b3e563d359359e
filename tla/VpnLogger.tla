------------------------------ MODULE VpnLogger ------------------------------
(***************************************************************************)
(* The process logger (vpnlogger.cpp), which runs in a thread of its own   *)
(* and finds in the output of the VPN processes what the GUI has to show:  *)
(* errors, prompts, the SAML cue, a refused gateway certificate.  The main *)
(* thread talks to it by queued calls, in order (calls).  All of its maps  *)
(* are keyed by the NAME of the VPN; an attempt is one process started for *)
(* a name, as in VpnManager, and the user may start a name again while its *)
(* last process still tears down.                                          *)
(* A line is the member of Lines whose pattern it matches; the ones that   *)
(* match none are left out, but for the details of a refused certificate.  *)
(* A prompt is written in two parts.                                       *)
(***************************************************************************)
EXTENDS Integers, Sequences

CONSTANTS
  Names,        \* the VPN profiles
  MaxAttempts,  \* bound: processes started
  MaxLines,     \* bound: lines all processes print; a prompt counts for one, and
                \* every process after the first for two
  CertLimit,    \* more lines than that stand for over 10000 characters
  Full          \* as many lines stand for the 1 MB of logVPNData()

ASSUME LoggerAssumption ==
  /\ MaxAttempts \in Nat \ {0}
  /\ MaxLines \in Nat
  /\ CertLimit \in Nat
  /\ Full \in Nat \ {0} /\ CertLimit < Full

VARIABLES
  started,    \* the names of the attempts, in the order they were started
  child,      \* a process: "none", "run", "wait" (at its prompt), "ended"
              \* (finished() is due), "gone"
  last,       \* the last line it printed, or where that has left it
  printed,    \* how many lines were printed
  buffer,     \* QProcess: output that nobody has read
  arrived,    \* the processes with a readyRead() due
  heard,      \* the processes addVPN() has connected to
  calls,      \* the queued calls of the logger
  log,        \* what the logger keeps of a name
  pending,    \* vpnLogger::pending
  timer,      \* flushTimer is active
  shown,      \* the signals emitted: what, of whose output, for which process;
              \* a prompt until it is answered
  opened,     \* how often SAMLAuthRequest() was emitted for a process
  handled,    \* history: attempts whose procFinished() has run
  lost,       \* history: attempts whose end the logger never hears of
  certFailed, \* history: attempts that failed for their gateway certificate
  overlapped, \* history: attempts that had their name at the same time
  cut,        \* history: attempts whose prompt began in a running timer
  mixed,      \* history: attempts whose refused certificate ends a piece of output
              \* after which the logger is not in its mode
  swallowed   \* history: attempts whose prompt, or refused certificate, shared a
              \* piece of output with an error

processVars == <<started, child, last, printed, certFailed>>
mainVars    == <<buffer, arrived>>
loggerVars  == <<heard, log, pending, timer, shown, opened, overlapped, cut, mixed,
                 swallowed>>
vars == <<processVars, mainVars, loggerVars, calls, handled, lost>>

Attempts == 1 .. MaxAttempts
Started  == DOMAIN started
NameOf(a) == started[a]

\* "error" stands for the patterns that are looked for in any case, "auth" for
\* those that are held back while the output is about a refused certificate, and
\* "denied" for the one of these that openfortivpn prints because of a refused
\* certificate.  A "detail" of that certificate matches nothing.
Lines == {"error", "auth", "denied", "saml", "ask", "prompt", "cert", "detail", "closed"}
Output == [by: Attempts, line: Lines]
Signals == [kind: {"error", "auth", "denied", "saml", "prompt", "cert"},
            from: Attempts, to: Attempts]
NoLog == [open |-> FALSE, proc |-> 0, certMode |-> FALSE, certBuffer |-> <<>>,
          saml |-> FALSE]

LoggerTypeOK ==
  /\ started \in Seq(Names) /\ Len(started) <= MaxAttempts
  /\ child \in [Attempts -> {"none", "run", "wait", "ended", "gone"}]
  /\ last \in [Attempts -> (Lines \ {"detail"}) \union {"none", "tunnel", "down", "out"}]
  /\ printed \in 0 .. MaxLines
  /\ buffer \in [Attempts -> Seq(Output)]
  /\ arrived \subseteq Attempts
  /\ heard \subseteq Attempts
  /\ calls \in Seq([do: {"add", "data", "finished"}, of: Started, data: Seq(Output)])
  /\ log \in [Names -> [open: BOOLEAN, proc: Attempts \union {0}, certMode: BOOLEAN,
                        certBuffer: Seq(Output), saml: BOOLEAN]]
  /\ pending \in [Names -> Seq(Output)]
  /\ timer \in BOOLEAN
  /\ shown \subseteq Signals
  /\ opened \in [Attempts -> Nat]
  /\ handled \subseteq Started
  /\ lost \subseteq Started
  /\ certFailed \subseteq Started
  /\ overlapped \subseteq Started
  /\ cut \subseteq Started
  /\ mixed \subseteq Started
  /\ swallowed \subseteq Started

LoggerInit ==
  /\ started = <<>>
  /\ child = [a \in Attempts |-> "none"]
  /\ last = [a \in Attempts |-> "none"]
  /\ printed = 0
  /\ buffer = [a \in Attempts |-> <<>>]
  /\ arrived = {}
  /\ heard = {}
  /\ calls = <<>>
  /\ log = [n \in Names |-> NoLog]
  /\ pending = [n \in Names |-> <<>>]
  /\ timer = FALSE
  /\ shown = {}
  /\ opened = [a \in Attempts |-> 0]
  /\ handled = {}
  /\ lost = {}
  /\ certFailed = {}
  /\ overlapped = {}
  /\ cut = {}
  /\ mixed = {}
  /\ swallowed = {}

Post(do, a, data) == Append(calls, [do |-> do, of |-> a, data |-> data])

-----------------------------------------------------------------------------
(* The processes.                                                          *)

\* startVPN() emits addVPNLogger() and starts the process; if sudo is missing
\* there is no finished().
StartVPN(n) ==
  LET a == Len(started) + 1 IN
  /\ a \in Attempts /\ printed + 2 * Len(started) <= MaxLines
  /\ started' = Append(started, n)
  /\ calls' = Post("add", a, <<>>)
  /\ \/ child' = [child EXCEPT ![a] = "run"] /\ UNCHANGED lost
     \/ child' = [child EXCEPT ![a] = "gone"] /\ lost' = lost \union {a}
  /\ UNCHANGED <<last, printed, certFailed, mainVars, loggerVars, handled>>

\* A connection is being made, or is up without having printed anything since.
Connecting == {"none", "saml", "prompt", "down"}

\* The order in which process() of the worker comes to print them.  What io_loop()
\* has to say comes from a "tunnel"; one that has been up goes "down" and may be
\* connected again, while a connection that failed is "closed" and that is the
\* end.  Either way the logout connects once more, which may fail, ask for a
\* passphrase and refuse the certificate again.
NextLines(l) ==
  CASE l \in {"none", "saml"}   -> {"saml", "ask", "cert", "auth", "error", "closed"}
    [] l \in {"prompt", "down"} -> {"ask", "cert", "auth", "error", "closed"}
    [] l = "tunnel"             -> {"auth", "error", "closed"}
    [] l = "ask"                -> {"prompt"}
    [] l = "cert"               -> {"detail", "denied", "closed"}
    [] l \in {"auth", "denied", "error"} -> {"closed"}
    [] l = "closed"             -> {"ask", "cert", "error"}
    [] l = "out"                -> {}

\* Where a line leaves the process.
After(l, line) ==
  CASE line = "closed" /\ l \in Connecting \union {"tunnel"} -> {"down"}
    [] line \in {"auth", "error"} /\ l = "tunnel" -> {"tunnel"}
    [] line = "auth" /\ l \in Connecting          -> {"auth", "tunnel"}
    [] line = "error" /\ l \in Connecting \ {"down"} -> {"error", "tunnel"}
    [] line = "error" /\ l = "down" -> {"error", "tunnel", "down"}
    [] line = "cert" /\ l = "down"  -> {"cert", "down"}
    [] line \in {"cert", "error"} /\ l = "closed" -> {"out"}
    [] line = "detail" -> {"cert"}
    [] OTHER -> {line}

\* A process that has asked for something reads its stdin.
ChildPrints(a, l) ==
  /\ child[a] = "run"
  /\ l \in NextLines(last[a])
  /\ printed' = printed + (IF l = "prompt" THEN 0 ELSE 1)
  /\ printed' + 2 * (Len(started) - 1) <= MaxLines
  /\ \E next \in After(last[a], l) :
       /\ last' = [last EXCEPT ![a] = next]
       /\ certFailed' = IF next = "cert" THEN certFailed \union {a} ELSE certFailed
  /\ child' = [child EXCEPT ![a] = IF l = "prompt" THEN "wait" ELSE "run"]
  /\ buffer' = [buffer EXCEPT ![a] = Append(@, [by |-> a, line |-> l])]
  /\ arrived' = arrived \union {a}
  /\ UNCHANGED <<started, calls, handled, lost, loggerVars>>

\* It ends by itself, is stopped or killed.
ChildEnds(a) ==
  /\ child[a] \in {"run", "wait"}
  /\ child' = [child EXCEPT ![a] = "ended"]
  /\ UNCHANGED <<started, last, printed, certFailed, mainVars, loggerVars, calls,
                 handled, lost>>

Signalled(kind, a) == \E s \in shown : s.kind = kind /\ s.to = a

\* The user answers the dialog, or closes it, which writes an empty line.
Answer(a) ==
  /\ child[a] = "wait"
  /\ Signalled("prompt", a)
  /\ child' = [child EXCEPT ![a] = "run"]
  /\ shown' = {s \in shown : s.kind # "prompt" \/ s.to # a}
  /\ UNCHANGED <<started, last, printed, certFailed, mainVars, heard, log, pending,
                 timer, opened, overlapped, cut, mixed, swallowed, calls, handled, lost>>

-----------------------------------------------------------------------------
(* The main thread: the slots addVPN() connects to the process.            *)

\* What came before the connection stays in the QProcess until more comes.
ReadyRead(a) ==
  /\ a \in arrived
  /\ arrived' = arrived \ {a}
  /\ IF a \in heard
     THEN /\ calls' = Post("data", a, buffer[a])
          /\ buffer' = [buffer EXCEPT ![a] = <<>>]
     ELSE UNCHANGED <<calls, buffer>>
  /\ UNCHANGED <<processVars, loggerVars, handled, lost>>

\* finished(); if nobody is connected to it the logger never hears of it.
Finished(a) ==
  /\ child[a] = "ended"
  /\ a \notin arrived
  /\ child' = [child EXCEPT ![a] = "gone"]
  /\ IF a \in heard
     THEN calls' = Post("finished", a, <<>>) /\ UNCHANGED lost
     ELSE lost' = lost \union {a} /\ UNCHANGED calls
  /\ UNCHANGED <<started, last, printed, certFailed, mainVars, loggerVars, handled>>

-----------------------------------------------------------------------------
(* The logger thread.                                                      *)

Writers(chunk, line) == {chunk[i].by : i \in {j \in DOMAIN chunk : chunk[j].line = line}}
Contains(chunk, line) == Writers(chunk, line) # {}

\* The processes whose prompt is in the chunk from beginning to end.
Prompts(chunk) ==
  {chunk[i].by : i \in {j \in 2 .. Len(chunk) : /\ chunk[j].line = "prompt"
                                                /\ chunk[j - 1].line = "ask"}}

\* Mutant: only what came before counts, not the chunk at hand.
CertFlowLate(n, chunk) == log[n].certMode

CertFlow(n, chunk) == log[n].certMode \/ Contains(chunk, "cert")

\* "ERROR:  Could not authenticate to", whatever the reason.
FailsLogin(chunk) == Contains(chunk, "auth") \/ Contains(chunk, "denied")

\* Mutant: nobody asks for the log file.
VerdictWithoutFile(n, chunk) ==
  IF FailsLogin(chunk) /\ ~CertFlow(n, chunk) THEN "auth"
  ELSE IF Contains(chunk, "error") THEN "error" ELSE "passed"

\* Why processOutput() returns early, or "passed".
Verdict(n, chunk) ==
  CASE ~log[n].open -> "closed"
    [] log[n].open /\ FailsLogin(chunk) /\ ~CertFlow(n, chunk) -> "auth"
    [] log[n].open /\ (FailsLogin(chunk) => CertFlow(n, chunk))
         /\ Contains(chunk, "error") -> "error"
    [] OTHER -> "passed"

Collected(n, chunk) ==
  IF CertFlow(n, chunk) THEN log[n].certBuffer \o chunk ELSE log[n].certBuffer

\* Mutant: beginning and end have to be in the same chunk.
CertCompleteAtOnce(n, chunk) == Contains(chunk, "cert") /\ Contains(chunk, "closed")

\* The connection is over, or enough is collected.
CertComplete(n, chunk) ==
  /\ CertFlow(n, chunk)
  /\ Contains(chunk, "closed") \/ Len(Collected(n, chunk)) > CertLimit

\* Mutant: the line is answered every time it is seen.
WantsBrowserAgain(n, chunk) == Contains(chunk, "saml")

WantsBrowser(n, chunk) == ~log[n].saml /\ Contains(chunk, "saml")

Emit(kind, from, n) == [kind: {kind}, from: from, to: {log[n].proc}]

EmittedBy(n, chunk) ==
  CASE Verdict(n, chunk) = "closed" -> {}
    [] Verdict(n, chunk) = "error" -> Emit("error", Writers(chunk, "error"), n)
    [] Verdict(n, chunk) = "auth"  -> Emit("auth", Writers(chunk, "auth"), n)
                                      \union Emit("denied", Writers(chunk, "denied"), n)
    [] Verdict(n, chunk) = "passed" ->
         Emit("saml", IF WantsBrowser(n, chunk) THEN Writers(chunk, "saml") ELSE {}, n)
         \union Emit("prompt", Prompts(chunk), n)
         \union Emit("cert", IF CertComplete(n, chunk)
                             THEN {Collected(n, chunk)[i].by : i \in DOMAIN Collected(n, chunk)}
                             ELSE {}, n)

LogAfter(n, chunk) ==
  IF Verdict(n, chunk) # "passed" THEN log[n]
  ELSE [log[n] EXCEPT
          !.saml = @ \/ Contains(chunk, "saml"),
          !.certMode = CertFlow(n, chunk) /\ ~CertComplete(n, chunk),
          !.certBuffer = IF CertComplete(n, chunk) THEN <<>> ELSE Collected(n, chunk)]

\* The process whose refused certificate ends the chunk, but the mode is over: a
\* connection ended in the same chunk before, or the limit is passed.
MixedUp(n, chunk) ==
  {chunk[i].by : i \in {j \in DOMAIN chunk :
     /\ j = Len(chunk) /\ chunk[j].line \in {"cert", "detail"}
     /\ Verdict(n, chunk) = "passed" /\ CertComplete(n, chunk)}}

\* The processes whose output an early return of processOutput() kept from being
\* looked at: a prompt, or a refused certificate from its begin to its end.
Swallowed(n, chunk) ==
  IF Verdict(n, chunk) \notin {"error", "auth"} THEN {}
  ELSE Prompts(chunk) \union (IF CertFlow(n, chunk)
                              THEN Writers(chunk, "cert") \union Writers(chunk, "closed")
                              ELSE {})

\* processOutput(), but for what it leaves in the maps (LogAfter).
ProcessOutput(n, chunk) ==
  /\ shown' = shown \union EmittedBy(n, chunk)
  /\ opened' = IF Verdict(n, chunk) = "passed" /\ WantsBrowser(n, chunk)
               THEN [opened EXCEPT ![log[n].proc] = @ + 1] ELSE opened
  /\ mixed' = mixed \union MixedUp(n, chunk)
  /\ swallowed' = swallowed \union Swallowed(n, chunk)

Call(do, a) ==
  /\ calls # <<>>
  /\ Head(calls).do = do
  /\ Head(calls).of = a
  /\ calls' = Tail(calls)

\* The earlier processes of the name the logger may still hear of.
Before(a) == {b \in Started : b < a /\ NameOf(b) = NameOf(a) /\ b \notin handled \union lost}

\* Mutant: the log file is opened for the first process of a name only.
AddVPNOnce(a) ==
  LET n == NameOf(a) IN
  /\ Call("add", a)
  /\ log' = [log EXCEPT ![n] = [@ EXCEPT
       !.open = @ \/ \A b \in Started : b < a => NameOf(b) # n,
       !.proc = a, !.certMode = FALSE, !.certBuffer = <<>>]]
  /\ heard' = heard \union {a}
  /\ overlapped' = IF Before(a) = {} THEN overlapped
                   ELSE overlapped \union Before(a) \union {a}
  /\ UNCHANGED <<processVars, mainVars, pending, timer, shown, opened, cut, mixed,
                 swallowed, handled, lost>>

\* addVPN(): a log file that is open stays, and so does samlAuthRequested.
AddVPN(a) ==
  LET n == NameOf(a) IN
  /\ Call("add", a)
  /\ log' = [log EXCEPT ![n] = [@ EXCEPT !.open = TRUE, !.proc = a,
                                         !.certMode = FALSE, !.certBuffer = <<>>]]
  /\ heard' = heard \union {a}
  /\ overlapped' = IF Before(a) = {} THEN overlapped
                   ELSE overlapped \union Before(a) \union {a}
  /\ UNCHANGED <<processVars, mainVars, pending, timer, shown, opened, cut, mixed,
                 swallowed, handled, lost>>

\* Mutant: every read is matched by itself.
LogVPNDataAtOnce(a) ==
  LET n == NameOf(a) IN
  /\ Call("data", a)
  /\ ProcessOutput(n, Head(calls).data)
  /\ log' = [log EXCEPT ![n] = LogAfter(n, Head(calls).data)]
  /\ UNCHANGED <<processVars, mainVars, heard, pending, timer, overlapped, cut, handled, lost>>

EndsInQuestion(chunk) == chunk # <<>> /\ chunk[Len(chunk)].line = "ask"

\* logVPNData(): collect, or process at once what has become too large.
LogVPNData(a) ==
  LET n == NameOf(a)
      data == pending[n] \o Head(calls).data
  IN
  /\ Call("data", a)
  /\ cut' = IF EndsInQuestion(data) /\ (timer \/ Len(data) >= Full)
            THEN cut \union {a} ELSE cut
  /\ IF Len(data) >= Full
     THEN /\ ProcessOutput(n, data)
          /\ log' = [log EXCEPT ![n] = LogAfter(n, data)]
          /\ pending' = [pending EXCEPT ![n] = <<>>]
          /\ UNCHANGED timer
     ELSE /\ pending' = [pending EXCEPT ![n] = data]
          /\ timer' = TRUE
          /\ UNCHANGED <<log, shown, opened, mixed, swallowed>>
  /\ UNCHANGED <<processVars, mainVars, heard, overlapped, handled, lost>>

\* The first part of a prompt started the timer: the other part, written right
\* after it, is here before the 150 ms are over.
PromptUnderWay ==
  \E n \in Names :
    /\ EndsInQuestion(pending[n])
    /\ LET a == pending[n][Len(pending[n])].by IN
       /\ a \notin cut
       /\ \/ last[a] = "ask" /\ child[a] = "run"
          \/ a \in arrived
          \/ \E i \in DOMAIN calls : calls[i].of = a /\ calls[i].do = "data"

\* flushPending(): all names at once.
FlushPending ==
  /\ timer
  /\ ~PromptUnderWay
  /\ timer' = FALSE
  /\ pending' = [n \in Names |-> <<>>]
  /\ shown' = shown \union UNION {EmittedBy(n, pending[n]) : n \in Names}
  /\ log' = [n \in Names |-> LogAfter(n, pending[n])]
  /\ opened' = [a \in Attempts |->
       opened[a] + (IF \E n \in Names : /\ log[n].proc = a
                                        /\ Verdict(n, pending[n]) = "passed"
                                        /\ WantsBrowser(n, pending[n])
                    THEN 1 ELSE 0)]
  /\ mixed' = mixed \union UNION {MixedUp(n, pending[n]) : n \in Names}
  /\ swallowed' = swallowed \union UNION {Swallowed(n, pending[n]) : n \in Names}
  /\ UNCHANGED <<processVars, mainVars, heard, overlapped, cut, calls, handled, lost>>

\* Mutant: the flag of the SAML cue is forgotten.
ProcFinishedKeepsSaml(a) ==
  LET n == NameOf(a) IN
  /\ Call("finished", a)
  /\ ProcessOutput(n, pending[n])
  /\ pending' = [pending EXCEPT ![n] = <<>>]
  /\ log' = [log EXCEPT ![n] = [NoLog EXCEPT !.saml = LogAfter(n, pending[n]).saml]]
  /\ handled' = handled \union {a}
  /\ UNCHANGED <<processVars, mainVars, heard, timer, overlapped, cut, lost>>

\* Mutant: what arrived last is not looked at, and stays.
ProcFinishedLeavesPending(a) ==
  /\ Call("finished", a)
  /\ log' = [log EXCEPT ![NameOf(a)] = NoLog]
  /\ handled' = handled \union {a}
  /\ UNCHANGED <<processVars, mainVars, heard, pending, timer, shown, opened,
                 overlapped, cut, mixed, swallowed, lost>>

\* procFinished(): whatever arrived last, then everything of the name goes.
ProcFinished(a) ==
  LET n == NameOf(a) IN
  /\ Call("finished", a)
  /\ ProcessOutput(n, pending[n])
  /\ pending' = [pending EXCEPT ![n] = <<>>]
  /\ log' = [log EXCEPT ![n] = NoLog]
  /\ handled' = handled \union {a}
  /\ UNCHANGED <<processVars, mainVars, heard, timer, overlapped, cut, lost>>

MainSlot(a) == ReadyRead(a) \/ Finished(a)

LoggerSlot(a) == AddVPN(a) \/ LogVPNData(a) \/ ProcFinished(a)

Next ==
  \/ \E n \in Names : StartVPN(n)
  \/ \E a \in Started :
       \/ \E l \in Lines : ChildPrints(a, l)
       \/ ChildEnds(a)
       \/ Answer(a)
       \/ MainSlot(a)
       \/ LoggerSlot(a)
  \/ FlushPending

Spec == LoggerInit /\ [][Next]_vars

\* Both event loops go on, and who has begun a prompt writes the rest of it.
FairSpec ==
  /\ Spec
  /\ WF_vars(FlushPending \/ \E a \in Started : LoggerSlot(a))
  /\ WF_vars(\E a \in Started : MainSlot(a))
  /\ WF_vars(\E a \in Started : ChildPrints(a, "prompt"))

-----------------------------------------------------------------------------
(* Properties.  A name started again while the logger still expects        *)
(* something of its last process is the excuse of both attempts: the maps  *)
(* have one place for the two.                                             *)

\* A signal names the process whose output it is about: what is left over of
\* one attempt is never taken for the output of the next one.
Attribution ==
  \A s \in shown : s.from = s.to \/ {s.from, s.to} \subseteq overlapped

\* The logger goes on listening to a process that addVPN() has connected to
\* until procFinished() of that process, whatever happened to the name before.
Listening ==
  \A a \in heard :
    a \notin handled \union lost \union overlapped
      => log[NameOf(a)].open /\ log[NameOf(a)].proc = a

\* "Everything belonging to this VPN goes away with the process": a name has
\* state only as long as one of its processes may be heard of, or has ended
\* before addVPN() could connect to it.
StateGoesWithProcess ==
  \A n \in Names :
    log[n] # NoLog \/ (pending[n] # <<>> /\ ~timer)
      => \E a \in heard : NameOf(a) = n /\ a \notin handled

\* One attempt opens the browser once, however often its SAML listener prints
\* the cue.
BrowserOnce == \A a \in Attempts : opened[a] <= 1

\* The failed login openfortivpn prints after a refused gateway certificate is
\* never shown as one, wherever a flush cuts the output.  Excused is a refusal at
\* the end of a piece in which a connection ended before, whose text passes the
\* limit, or that begins with an error of the round before: the logger is not in
\* its mode when the rest arrives.
RefusedCertIsNotAuth ==
  \A s \in shown : s.kind = "denied" => s.from \in overlapped \union mixed \union swallowed

\* What a process printed was read before addVPN() connected to it, and no more
\* has come since.
Unheard(a) == buffer[a] # <<>>

\* A process that waits at a prompt gets its dialog, though the prompt is
\* written in parts, unless a timer that was already running cut it in two or
\* it came together with an error of the connection before.
PromptIsAsked ==
  \A a \in Attempts :
    child[a] = "wait" ~> \/ Signalled("prompt", a) \/ child[a] # "wait"
                         \/ a \in overlapped \union cut \union swallowed
                         \/ Unheard(a)

\* A refused certificate is reported once its process is done with the gateway,
\* unless a piece of the output about it was given up for an error in it.
RefusedCertIsReported ==
  \A a \in Attempts :
    a \in certFailed /\ last[a] \in {"closed", "out"}
      ~> Signalled("cert", a) \/ a \in overlapped \union swallowed \/ Unheard(a)
=============================================================================

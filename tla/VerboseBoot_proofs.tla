--------------------------- MODULE VerboseBoot_proofs ---------------------------
(***************************************************************************)
(* Proofs about the debug log and about the enumeration in a verbose run.  *)
(* The log: fwup_log is entered again at most once, the log keeps the      *)
(* order of the messages, and a setting that holds 1 makes a run verbose,  *)
(* for any number of boots, messages and failures.  The enumeration: it is *)
(* a run of the debug log, and it finds each update once and in order      *)
(* wherever the log moves, for any number of updates as well.              *)
(***************************************************************************)
EXTENDS VerboseBoot, TLAPS

------------------------------------------------------------------------------
(* The debug log *)

\* The calls in progress: the outer one waits for its SetVariable, which will
\* replace the log, while the first message is the nested one.
StackInv ==
    /\ Len(stack) <= 2
    /\ pc # "run" => stack = <<>>
    /\ Len(stack) = 1 => ~stack[1].message.nested
    /\ stack # <<>> => stack[1].at = "set" \/ stack[1].append = FALSE
    /\ Len(stack) = 2 => /\ ~once
                         /\ stack[1].message.nested /\ ~stack[2].message.nested
                         /\ stack[2].at = "set" /\ ~stack[2].append

\* A message that was printed has its number.
NumberInv ==
    \A k \in DOMAIN stack :
        /\ stack[k].message.boot = boot
        /\ stack[k].at # "format" => stack[k].message.number \in 1..Len(printed)

\* What is in the log was printed.
LogInv ==
    \A p \in DOMAIN log :
        log[p].boot < boot \/ (log[p].boot = boot /\ log[p].number <= Len(printed))

\* What is going to be appended is newer than all of the log.
AppendInv ==
    stack # <<>> /\ (stack[1].at = "append" \/ (stack[1].at = "set" /\ stack[1].append)) =>
        \A p \in DOMAIN log : Before(log[p], stack[1].message)

IInv == TypeOK /\ StackInv /\ NumberInv /\ LogInv /\ AppendInv /\ LogOrdered

USE BoundsAssumption DEF hook

------------------------------------------------------------------------------
(* Stacks *)

LEMMA EmptySeq == ASSUME NEW S PROVE <<>> \in Seq(S)
  OBVIOUS

LEMMA TopFacts ==
    ASSUME NEW S, NEW s \in Seq(S), s # <<>>
    PROVE  /\ Head(s) = s[1] /\ s[1] \in S /\ Len(s) \in Nat /\ Len(s) >= 1
           /\ Tail(s) \in Seq(S) /\ Len(Tail(s)) = Len(s) - 1
           /\ \A k \in 1..Len(s) - 1 : Tail(s)[k] = s[k + 1]
  OBVIOUS

LEMMA PushFacts ==
    ASSUME NEW S, NEW s \in Seq(S), NEW x \in S
    PROVE  /\ <<x>> \o s \in Seq(S) /\ Len(<<x>> \o s) = Len(s) + 1
           /\ (<<x>> \o s)[1] = x
           /\ \A k \in 1..Len(s) : (<<x>> \o s)[k + 1] = s[k]
  OBVIOUS

LEMMA ReplaceFacts ==
    ASSUME NEW S, NEW s \in Seq(S), s # <<>>, NEW x \in S
    PROVE  /\ <<x>> \o Tail(s) \in Seq(S) /\ Len(<<x>> \o Tail(s)) = Len(s)
           /\ (<<x>> \o Tail(s))[1] = x
           /\ \A k \in 2..Len(s) : (<<x>> \o Tail(s))[k] = s[k]
  <1>1. /\ Tail(s) \in Seq(S) /\ Len(Tail(s)) = Len(s) - 1 /\ Len(s) \in Nat
        /\ \A k \in 1..Len(s) - 1 : Tail(s)[k] = s[k + 1]
    BY TopFacts
  <1>2. /\ <<x>> \o Tail(s) \in Seq(S) /\ Len(<<x>> \o Tail(s)) = Len(Tail(s)) + 1
        /\ (<<x>> \o Tail(s))[1] = x
        /\ \A k \in 1..Len(Tail(s)) : (<<x>> \o Tail(s))[k + 1] = Tail(s)[k]
    BY <1>1, PushFacts
  <1>3. ASSUME NEW k \in 2..Len(s) PROVE (<<x>> \o Tail(s))[k] = s[k]
    <2>1. k - 1 \in 1..Len(s) - 1 /\ (k - 1) + 1 = k
      BY <1>1
    <2>. QED BY <2>1, <1>1, <1>2
  <1>. QED BY <1>1, <1>2, <1>3

LEMMA Unwound == ASSUME stack' = <<>> PROVE StackInv' /\ NumberInv' /\ AppendInv'
  BY DEF StackInv, NumberInv, AppendInv

\* The outermost call returns, or the nested one to the call that waits.
LEMMA PopInv ==
    ASSUME IInv, stack # <<>>, pc = "run", stack' = Tail(stack),
           UNCHANGED <<pc, once, boot, printed>>
    PROVE  StackInv' /\ NumberInv' /\ stack' \in Seq(Frames)
           /\ (stack' # <<>> => stack'[1].at = "set" /\ ~stack'[1].append)
  <1>0. stack \in Seq(Frames) /\ Len(stack) <= 2
    BY DEF IInv, TypeOK, StackInv
  <1>1. /\ stack \in Seq(Frames) /\ Len(stack) \in Nat /\ Len(stack) \in {1, 2}
        /\ Tail(stack) \in Seq(Frames) /\ Len(Tail(stack)) = Len(stack) - 1
        /\ \A k \in 1..Len(stack) - 1 : Tail(stack)[k] = stack[k + 1]
    <2>1. /\ Len(stack) \in Nat /\ Len(stack) >= 1
          /\ Tail(stack) \in Seq(Frames) /\ Len(Tail(stack)) = Len(stack) - 1
          /\ \A k \in 1..Len(stack) - 1 : Tail(stack)[k] = stack[k + 1]
      BY <1>0, TopFacts
    <2>2. Len(stack) \in {1, 2}
      BY <1>0, <2>1
    <2>. QED BY <1>0, <2>1, <2>2
  <1>2. CASE Len(stack) = 1
    <2>1. stack' = <<>>
      BY <1>1, <1>2
    <2>2. StackInv' /\ NumberInv'
      BY <2>1, Unwound
    <2>. QED BY <1>1, <2>1, <2>2
  <1>3. CASE Len(stack) = 2
    <2>0. 1 \in 1..Len(stack) - 1 /\ 1..1 = {1} /\ 1..2 = {1, 2} /\ Len(Tail(stack)) = 1
      BY <1>1, <1>3
    <2>1. DOMAIN Tail(stack) = {1} /\ DOMAIN stack = {1, 2} /\ Tail(stack)[1] = stack[2]
      <3>1. Tail(stack)[1] = stack[2]
        BY <1>1, <2>0
      <3>2. DOMAIN Tail(stack) = 1..Len(Tail(stack)) /\ DOMAIN stack = 1..Len(stack)
        BY <1>1
      <3>. QED BY <1>3, <2>0, <3>1, <3>2
    <2>2. NumberInv'
      BY <2>1 DEF IInv, NumberInv
    <2>. QED BY <1>1, <1>3, <2>1, <2>2 DEF IInv, StackInv
  <1>. QED BY <1>1, <1>2, <1>3

LEMMA OneFits == 1 \in 1..MaxSetting
  BY BoundsAssumption

LEMMA InitInv == Init => IInv
  <1>. SUFFICES ASSUME Init PROVE IInv
    OBVIOUS
  <1>1. TypeOK
    <2>1. <<>> \in Seq(Formatted) /\ <<>> \in Seq(Frames)
      BY EmptySeq
    <2>2. boot \in 0..MaxBoots /\ failures \in 0..MaxFailures
      BY DEF Init
    <2>. QED BY <2>1, <2>2, OneFits DEF Init, TypeOK
  <1>. QED BY <1>1 DEF Init, IInv, StackInv, NumberInv, LogInv, AppendInv, LogOrdered

\* The log stays as it is, and so does the boot; what is printed grows.
LEMMA LogKept ==
    ASSUME IInv, UNCHANGED <<log, boot>>, Len(printed) <= Len(printed'),
           Len(printed) \in Nat, Len(printed') \in Nat
    PROVE  LogInv' /\ LogOrdered'
  <1>1. \A p \in DOMAIN log : log[p] \in Messages
    BY DEF IInv, TypeOK, Formatted
  <1>2. LogInv'
    BY <1>1 DEF IInv, LogInv, Messages
  <1>. QED BY <1>2 DEF IInv, LogOrdered, Before

LEMMA PrintedLength == TypeOK => Len(printed) \in Nat /\ Len(log) \in Nat
  BY DEF TypeOK

LEMMA BootInv == ASSUME IInv, Boot PROVE IInv'
  <1>1. TypeOK'
    <2>1. <<>> \in Seq(Formatted) /\ <<>> \in Seq(Frames)
      BY EmptySeq
    <2>2. boot' \in 0..MaxBoots /\ failures' \in 0..MaxFailures
      BY DEF Boot, IInv, TypeOK
    <2>. QED BY <2>1, <2>2, OneFits DEF Boot, IInv, TypeOK
  <1>2. StackInv' /\ NumberInv' /\ AppendInv'
    BY DEF Boot, StackInv, NumberInv, AppendInv
  <1>3. \A p \in DOMAIN log : log[p] \in Messages /\ log[p].boot \in Nat /\ log[p].boot < boot + 1
    <2>1. boot \in Nat /\ \A p \in DOMAIN log : log[p] \in Messages
      BY DEF IInv, TypeOK, Formatted
    <2>. QED BY <2>1 DEF IInv, LogInv, Messages
  <1>4. LogInv' /\ LogOrdered'
    BY <1>3 DEF Boot, IInv, LogInv, LogOrdered, Before
  <1>. QED BY <1>1, <1>2, <1>4 DEF IInv

\* A step outside fwup_log leaves all but pc and the setting alone.
LEMMA OutsideInv ==
    ASSUME IInv, UNCHANGED <<log, stack, boot, printed, once>>,
           pc' = "run" \/ stack = <<>>, TypeOK'
    PROVE  IInv'
  <1>1. StackInv' /\ NumberInv' /\ AppendInv'
    BY DEF IInv, StackInv, NumberInv, AppendInv, Before
  <1>2. LogInv' /\ LogOrdered'
    BY DEF IInv, LogInv, LogOrdered, Before
  <1>. QED BY <1>1, <1>2 DEF IInv

\* The program starts to log a message.
LEMMA CallInv ==
    ASSUME IInv, stack' = <<Call(FALSE)>>, pc' = "run", debugging' \in BOOLEAN,
           UNCHANGED <<log, settings, hook, once, boot, printed, failures>>
    PROVE  IInv'
  <1>1. Call(FALSE) \in Frames
    BY DEF Call, Frames, Messages, IInv, TypeOK
  <1>2. stack' \in Seq(Frames) /\ Len(stack') = 1 /\ stack'[1] = Call(FALSE)
    <2>1. \A x \in Frames : <<x>> \in Seq(Frames) /\ Len(<<x>>) = 1 /\ <<x>>[1] = x
      OBVIOUS
    <2>. QED BY <1>1, <2>1
  <1>3. TypeOK'
    BY <1>2 DEF IInv, TypeOK
  <1>4. StackInv' /\ AppendInv'
    BY <1>2 DEF StackInv, AppendInv, Call
  <1>5. NumberInv'
    <2>1. DOMAIN stack' = {1}
      BY <1>2
    <2>. QED BY <1>2, <2>1 DEF NumberInv, Call
  <1>6. LogInv' /\ LogOrdered'
    BY LogKept, PrintedLength DEF IInv
  <1>. QED BY <1>3, <1>4, <1>5, <1>6 DEF IInv

LEMMA LogCallInv == ASSUME IInv, Log PROVE IInv'
  <1>1. debugging' \in BOOLEAN
    BY DEF Log, IInv, TypeOK
  <1>. QED BY <1>1, CallInv DEF Log

LEMMA SizeAfterFits ==
    ASSUME TypeOK
    PROVE  /\ SizeAfter("SHIM_DEBUG") \in 1..MaxSetting
           /\ SizeAfter("SHIM_DEBUG") \in {data_size, settings["SHIM_DEBUG"].size}
  <1>1. settings["SHIM_DEBUG"].size \in 0..MaxSetting /\ data_size \in 1..MaxSetting
    <2>1. settings["SHIM_DEBUG"] \in Settings
      BY DEF TypeOK
    <2>. QED BY <2>1 DEF Settings, TypeOK
  <1>. QED BY <1>1 DEF SizeAfter

LEMMA HookInv == ASSUME IInv, DebugHook PROVE IInv'
  <1>0. stack = <<>>
    BY DEF DebugHook, ShimDebug, NoShimDebug, FwupdateVerbose, DataOverrun, IInv, StackInv
  <1>1. CASE ShimDebug
    BY <1>1, CallInv DEF ShimDebug
  <1>2. CASE NoShimDebug
    <2>1. data_size' \in 1..MaxSetting /\ failures' \in 0..MaxFailures
      BY <1>2, SizeAfterFits DEF NoShimDebug, Fails, IInv, TypeOK
    <2>2. TypeOK'
      BY <1>2, <2>1 DEF NoShimDebug, IInv, TypeOK
    <2>. QED BY <1>0, <1>2, <2>2, OutsideInv DEF NoShimDebug
  <1>3. CASE FwupdateVerbose
    <2>1. debugging' \in BOOLEAN
      <3>1. debugging \in BOOLEAN /\ ReadsOne("FWUPDATE_VERBOSE") \in BOOLEAN
        BY DEF ReadsOne, IInv, TypeOK
      <3>. QED BY <1>3, <3>1, Zenon DEF FwupdateVerbose
    <2>2. failures' \in 0..MaxFailures
      BY <1>3 DEF FwupdateVerbose, Fails, IInv, TypeOK
    <2>3. TypeOK'
      BY <1>3, <2>1, <2>2, OneFits DEF FwupdateVerbose, IInv, TypeOK
    <2>. QED BY <1>0, <1>3, <2>3, OutsideInv DEF FwupdateVerbose
  <1>4. CASE DataOverrun
    <2>1. TypeOK'
      BY <1>4, OneFits DEF DataOverrun, IInv, TypeOK
    <2>. QED BY <1>0, <1>4, <2>1, OutsideInv DEF DataOverrun
  <1>. QED BY <1>1, <1>2, <1>3, <1>4 DEF DebugHook

\* A call of fwup_log that returns without writing.
LEMMA EndsInv ==
    ASSUME IInv, stack # <<>>, stack' = Tail(stack), failures' \in 0..MaxFailures,
           UNCHANGED <<log, settings, pc, hook, debugging, once, boot, printed>>
    PROVE  IInv'
  <1>1. pc = "run"
    BY DEF IInv, StackInv
  <1>2. /\ StackInv' /\ NumberInv' /\ stack' \in Seq(Frames)
        /\ stack' # <<>> => stack'[1].at = "set" /\ ~stack'[1].append
    BY <1>1, PopInv
  <1>3. TypeOK'
    BY <1>2 DEF IInv, TypeOK
  <1>4. AppendInv'
    BY <1>2 DEF AppendInv
  <1>5. LogInv' /\ LogOrdered'
    BY LogKept, PrintedLength DEF IInv
  <1>. QED BY <1>2, <1>3, <1>4, <1>5 DEF IInv

LEMMA PrintInv == ASSUME IInv, PrintMessage PROVE IInv'
  <1>. DEFINE m == [Top.message EXCEPT !.number = Len(printed) + 1]
              f == [Top EXCEPT !.message = m, !.at = "append"]
  <1>1. /\ stack # <<>> /\ Top.at = "format" /\ stack' = Replace(f)
        /\ printed' = Append(printed, m)
        /\ UNCHANGED <<log, settings, pc, hook, debugging, once, boot, failures>>
    BY DEF PrintMessage
  <1>2. /\ stack \in Seq(Frames) /\ Top = stack[1] /\ Top \in Frames
        /\ printed \in Seq(Formatted) /\ Len(printed) \in Nat /\ boot \in Nat
    BY <1>1, TopFacts DEF IInv, TypeOK, Top
  <1>3. m \in Formatted /\ m.number = Len(printed) + 1 /\ m.boot = Top.message.boot
        /\ m.nested = Top.message.nested
    <2>1. Top.message \in Messages
      BY <1>2 DEF Frames
    <2>2. /\ Top.message.boot \in Nat /\ Top.message.nested \in BOOLEAN
          /\ m = [boot |-> Top.message.boot, number |-> Len(printed) + 1,
                  nested |-> Top.message.nested]
      BY <2>1 DEF Messages
    <2>3. m \in Messages /\ m.number > 0
      BY <1>2, <2>2 DEF Messages
    <2>. QED BY <2>2, <2>3 DEF Formatted
  <1>4. f \in Frames /\ f.message = m /\ f.at = "append" /\ f.append = Top.append
    BY <1>2, <1>3 DEF Frames, Formatted
  <1>5. /\ stack' \in Seq(Frames) /\ Len(stack') = Len(stack) /\ stack'[1] = f
        /\ \A k \in 2..Len(stack) : stack'[k] = stack[k]
    BY <1>1, <1>2, <1>4, ReplaceFacts DEF Replace
  <1>6. printed' \in Seq(Formatted) /\ Len(printed') = Len(printed) + 1
    BY <1>1, <1>2, <1>3
  <1>7. TypeOK'
    BY <1>1, <1>5, <1>6 DEF IInv, TypeOK
  <1>8. StackInv'
    <2>1. Len(stack) \in Nat /\ Len(stack') = Len(stack) /\ (Len(stack) = 2 => 2 \in 2..Len(stack))
      BY <1>2, <1>5
    <2>2. pc = "run"
      BY <1>1 DEF IInv, StackInv
    <2>3. StackInv
      BY DEF IInv
    <2>4. /\ pc' = pc /\ once' = once
          /\ stack'[1].message.nested = stack[1].message.nested
          /\ stack'[1].append = stack[1].append /\ stack'[1].at = "append"
          /\ stack[1].at = "format"
          /\ Len(stack) = 2 => stack'[2] = stack[2]
      BY <1>1, <1>2, <1>3, <1>4, <1>5, <2>1
    <2>. HIDE DEF m, f
    <2>. QED BY <1>1, <2>1, <2>2, <2>3, <2>4 DEF StackInv
  <1>9. NumberInv'
    <2>1. DOMAIN stack' = DOMAIN stack /\ DOMAIN stack = 1..Len(stack) /\ Len(stack) \in Nat
      BY <1>2, <1>5
    <2>2. ASSUME NEW k \in DOMAIN stack'
          PROVE  /\ stack'[k].message.boot = boot'
                 /\ stack'[k].at # "format" => stack'[k].message.number \in 1..Len(printed')
      <3>1. CASE k = 1
        <4>1. m.boot = boot
          BY <1>2, <1>3, <2>1, <2>2, <3>1 DEF IInv, NumberInv
        <4>2. m.number \in 1..Len(printed')
          BY <1>2, <1>3, <1>6
        <4>. QED BY <1>1, <1>4, <1>5, <3>1, <4>1, <4>2
      <3>2. CASE k # 1
        <4>1. k \in 2..Len(stack)
          BY <2>1, <2>2, <3>2
        <4>2. stack'[k] = stack[k] /\ k \in DOMAIN stack
          BY <1>5, <2>1, <4>1
        <4>3. 1..Len(printed) \subseteq 1..Len(printed')
          BY <1>2, <1>6
        <4>. QED BY <1>1, <4>2, <4>3 DEF IInv, NumberInv
      <3>. QED BY <3>1, <3>2
    <2>. QED BY <2>2 DEF NumberInv
  <1>10. LogInv' /\ LogOrdered'
    BY <1>1, <1>2, <1>6, LogKept
  <1>11. AppendInv'
    <2>1. m.boot = boot
      BY <1>1, <1>2, <1>3, TopFacts DEF IInv, NumberInv
    <2>2. \A p \in DOMAIN log : log[p] \in Messages
      BY DEF IInv, TypeOK, Formatted
    <2>3. \A p \in DOMAIN log : Before(log[p], m)
      BY <1>2, <1>3, <2>1, <2>2 DEF IInv, LogInv, Before, Messages
    <2>. QED BY <1>1, <1>4, <1>5, <2>3 DEF AppendInv
  <1>. QED BY <1>7, <1>8, <1>9, <1>10, <1>11 DEF IInv

\* once is still set, so the call is the only one; the nested call is put
\* before it, and what it will write replaces the log.
LEMMA FirstInv == ASSUME IInv, FirstMessage PROVE IInv'
  <1>. DEFINE f == [Top EXCEPT !.at = "set"]
  <1>1. /\ stack # <<>> /\ Top.at = "append" /\ once = TRUE /\ once' = FALSE
        /\ stack' = <<Call(TRUE)>> \o Replace(f)
        /\ UNCHANGED <<log, settings, pc, hook, debugging, boot, printed, failures>>
    BY DEF FirstMessage, IInv, TypeOK
  <1>2. /\ stack \in Seq(Frames) /\ Top = stack[1] /\ Top \in Frames
        /\ Len(stack) \in Nat /\ Len(stack) >= 1
    BY <1>1, TopFacts DEF IInv, TypeOK, Top
  <1>3. Len(stack) = 1 /\ ~stack[1].message.nested /\ pc = "run"
    <2>1. Len(stack) <= 2 /\ (pc # "run" => stack = <<>>)
          /\ (Len(stack) = 2 => ~once) /\ (Len(stack) = 1 => ~stack[1].message.nested)
      BY DEF IInv, StackInv
    <2>2. Len(stack) # 2
      BY <1>1, <2>1
    <2>3. Len(stack) = 1
      <3>1. Len(stack) \in Nat /\ Len(stack) >= 1
        BY <1>2
      <3>2. \A n \in Nat : n >= 1 /\ n <= 2 /\ n # 2 => n = 1
        OBVIOUS
      <3>. QED BY <2>1, <2>2, <3>1, <3>2
    <2>. QED BY <1>1, <2>1, <2>3
  <1>4. f \in Frames /\ f.message = Top.message /\ f.at = "set" /\ f.append = Top.append
    BY <1>2 DEF Frames
  <1>5. ~Top.append
    <2>1. stack[1].at = "set" \/ stack[1].append = FALSE
      BY <1>1 DEF IInv, StackInv
    <2>2. stack[1].at # "set"
      BY <1>1, <1>2
    <2>. QED BY <1>2, <2>1, <2>2
  <1>6. Call(TRUE) \in Frames /\ Call(TRUE).message.nested /\ Call(TRUE).at = "format"
        /\ Call(TRUE).message.boot = boot
    BY DEF Call, Frames, Messages, IInv, TypeOK
  <1>7. Replace(f) \in Seq(Frames) /\ Len(Replace(f)) = 1 /\ Replace(f)[1] = f
    BY <1>1, <1>2, <1>3, <1>4, ReplaceFacts DEF Replace
  <1>8. /\ stack' \in Seq(Frames) /\ Len(stack') = 2
        /\ stack'[1] = Call(TRUE) /\ stack'[2] = f
    <2>1. /\ stack' \in Seq(Frames) /\ Len(stack') = Len(Replace(f)) + 1
          /\ stack'[1] = Call(TRUE)
          /\ \A k \in 1..Len(Replace(f)) : stack'[k + 1] = Replace(f)[k]
      <3>. DEFINE r == Replace(f)
                  c == Call(TRUE)
      <3>1. r \in Seq(Frames) /\ c \in Frames
        BY <1>6, <1>7
      <3>2. /\ <<c>> \o r \in Seq(Frames) /\ Len(<<c>> \o r) = Len(r) + 1
            /\ (<<c>> \o r)[1] = c
            /\ \A k \in 1..Len(r) : (<<c>> \o r)[k + 1] = r[k]
        <4>. HIDE DEF r, c
        <4>. QED BY <3>1, PushFacts
      <3>. QED BY <1>1, <3>2
    <2>2. 1 \in 1..Len(Replace(f)) /\ 1 + 1 = 2
      BY <1>7
    <2>3. stack'[1 + 1] = Replace(f)[1]
      BY <2>1, <2>2
    <2>. QED BY <1>7, <2>1, <2>3
  <1>9. TypeOK'
    BY <1>1, <1>8 DEF IInv, TypeOK
  <1>10. StackInv' /\ AppendInv'
    <2>1. /\ ~once' /\ stack'[1].message.nested /\ ~stack'[2].message.nested
          /\ stack'[2].at = "set" /\ ~stack'[2].append
      BY <1>1, <1>2, <1>3, <1>4, <1>5, <1>6, <1>8
    <2>2. ~stack'[1].append /\ stack'[1].at = "format"
      BY <1>8 DEF Call
    <2>3. pc' = "run" /\ Len(stack') <= 2 /\ Len(stack') # 1
      <3>1. pc' = "run"
        BY <1>1, <1>3
      <3>2. Len(stack') = 2
        BY <1>8
      <3>. QED BY <3>1, <3>2
    <2>4. StackInv'
      BY <2>1, <2>2, <2>3 DEF StackInv
    <2>5. AppendInv'
      BY <2>2 DEF AppendInv
    <2>. QED BY <2>4, <2>5
  <1>11. NumberInv'
    <2>1. DOMAIN stack' = {1, 2} /\ 1 \in DOMAIN stack
      BY <1>2, <1>8
    <2>2. f.message.boot = boot /\ f.message.number \in 1..Len(printed)
      BY <1>1, <1>2, <1>4, <2>1 DEF IInv, NumberInv
    <2>. QED BY <1>1, <1>6, <1>8, <2>1, <2>2 DEF NumberInv
  <1>12. LogInv' /\ LogOrdered'
    BY <1>1, LogKept, PrintedLength DEF IInv
  <1>. QED BY <1>9, <1>10, <1>11, <1>12 DEF IInv

LEMMA LaterInv == ASSUME IInv, LaterMessage PROVE IInv'
  <1>. DEFINE f == [Top EXCEPT !.at = "set", !.append = TRUE]
  <1>1. /\ stack # <<>> /\ Top.at = "append" /\ stack' = Replace(f)
        /\ UNCHANGED <<log, settings, pc, hook, debugging, once, boot, printed, failures>>
    BY DEF LaterMessage
  <1>2. /\ stack \in Seq(Frames) /\ Top = stack[1] /\ Top \in Frames
        /\ Len(stack) \in Nat /\ Len(stack) >= 1
    BY <1>1, TopFacts DEF IInv, TypeOK, Top
  <1>3. f \in Frames /\ f.message = Top.message /\ f.at = "set" /\ f.append
    BY <1>2 DEF Frames
  <1>4. /\ stack' \in Seq(Frames) /\ Len(stack') = Len(stack) /\ stack'[1] = f
        /\ \A k \in 2..Len(stack) : stack'[k] = stack[k]
    BY <1>1, <1>2, <1>3, ReplaceFacts DEF Replace
  <1>5. TypeOK'
    BY <1>1, <1>4 DEF IInv, TypeOK
  <1>6. StackInv'
    <2>1. Len(stack) = 2 => 2 \in 2..Len(stack)
      BY <1>2
    <2>2. pc = "run"
      BY <1>1 DEF IInv, StackInv
    <2>. QED BY <1>1, <1>2, <1>3, <1>4, <2>1, <2>2 DEF IInv, StackInv
  <1>7. NumberInv'
    <2>1. DOMAIN stack' = DOMAIN stack /\ DOMAIN stack = 1..Len(stack) /\ 1 \in DOMAIN stack
      BY <1>2, <1>4
    <2>2. f.message.boot = boot /\ f.message.number \in 1..Len(printed)
      BY <1>1, <1>2, <1>3, <2>1 DEF IInv, NumberInv
    <2>3. \A k \in DOMAIN stack : k # 1 => stack'[k] = stack[k]
      BY <1>2, <1>4, <2>1
    <2>. QED BY <1>1, <1>4, <2>1, <2>2, <2>3 DEF IInv, NumberInv
  <1>8. AppendInv'
    BY <1>1, <1>2, <1>3, <1>4 DEF IInv, AppendInv
  <1>9. LogInv' /\ LogOrdered'
    BY <1>1, LogKept, PrintedLength DEF IInv
  <1>. QED BY <1>5, <1>6, <1>7, <1>8, <1>9 DEF IInv

\* The message of the innermost call is written; what it is appended to is
\* older.
LEMMA SetLogInv == ASSUME IInv, SetLog PROVE IInv'
  <1>. DEFINE m == Top.message
  <1>1. /\ stack # <<>> /\ Top.at = "set" /\ log' = Written /\ stack' = Tail(stack)
        /\ UNCHANGED <<settings, pc, hook, debugging, once, boot, printed, failures>>
    BY DEF SetLog
  <1>2. /\ stack \in Seq(Frames) /\ Top = stack[1] /\ Top \in Frames
        /\ 1 \in DOMAIN stack /\ log \in Seq(Formatted)
        /\ Len(printed) \in Nat /\ Len(log) \in Nat
    BY <1>1, TopFacts, PrintedLength DEF IInv, TypeOK, Top
  <1>3. m \in Messages /\ m.boot = boot /\ m.number \in 1..Len(printed) /\ m \in Formatted
    BY <1>1, <1>2 DEF IInv, NumberInv, Frames, Formatted
  <1>4. /\ StackInv' /\ NumberInv' /\ stack' \in Seq(Frames)
        /\ stack' # <<>> => stack'[1].at = "set" /\ ~stack'[1].append
    <2>1. pc = "run"
      BY <1>1 DEF IInv, StackInv
    <2>. QED BY <1>1, <2>1, PopInv
  <1>5. AppendInv'
    BY <1>4 DEF AppendInv
  <1>6. log' \in Seq(Formatted) /\ LogInv' /\ LogOrdered'
    <2>1. CASE Top.append
      <3>1. log' = Append(log, m)
        BY <1>1, <2>1 DEF Written
      <3>2. /\ log' \in Seq(Formatted) /\ DOMAIN log' = 1..Len(log) + 1
            /\ log'[Len(log) + 1] = m /\ DOMAIN log = 1..Len(log)
            /\ \A p \in DOMAIN log : log'[p] = log[p]
        BY <1>2, <1>3, <3>1
      <3>3. \A p \in DOMAIN log : Before(log[p], m)
        BY <1>1, <1>2, <2>1 DEF IInv, AppendInv
      <3>4. \A p \in DOMAIN log' : p \in DOMAIN log \/ p = Len(log) + 1
        BY <1>2, <3>2
      <3>5. LogInv'
        BY <1>1, <1>2, <1>3, <3>2, <3>4 DEF IInv, LogInv
      <3>6. LogOrdered'
        <4>1. ASSUME NEW p \in DOMAIN log', NEW q \in DOMAIN log', p < q
              PROVE  Before(log'[p], log'[q])
          <5>1. p \in DOMAIN log
            BY <1>2, <3>2, <4>1
          <5>. QED BY <3>2, <3>3, <3>4, <4>1, <5>1 DEF IInv, LogOrdered
        <4>. QED BY <4>1 DEF LogOrdered, Before
      <3>. QED BY <3>2, <3>5, <3>6
    <2>2. CASE ~Top.append
      <3>1. log' = <<m>>
        BY <1>1, <2>2 DEF Written
      <3>2. log' \in Seq(Formatted) /\ DOMAIN log' = {1} /\ log'[1] = m
        BY <1>3, <3>1
      <3>. QED BY <1>1, <1>3, <3>2 DEF LogInv, LogOrdered
    <2>. QED BY <2>1, <2>2
  <1>7. TypeOK'
    BY <1>1, <1>4, <1>6 DEF IInv, TypeOK
  <1>. QED BY <1>4, <1>5, <1>6, <1>7 DEF IInv

LEMMA NextInv == IInv /\ [Next]_vars => IInv'
  <1>. SUFFICES ASSUME IInv, [Next]_vars PROVE IInv'
    OBVIOUS
  <1>1. CASE Boot
    BY <1>1, BootInv
  <1>2. CASE DebugHook
    BY <1>2, HookInv
  <1>3. CASE Log
    BY <1>3, LogCallInv
  <1>4. CASE LogEnds
    BY <1>4, EndsInv DEF LogEnds, Fails, IInv, TypeOK
  <1>5. CASE PrintMessage
    BY <1>5, PrintInv
  <1>6. CASE FirstMessage
    BY <1>6, FirstInv
  <1>7. CASE LaterMessage
    BY <1>7, LaterInv
  <1>8. CASE SetLog
    BY <1>8, SetLogInv
  <1>9. CASE SetLogFails
    BY <1>9, EndsInv DEF SetLogFails, Fails, IInv, TypeOK
  <1>10. CASE Return
    <2>1. TypeOK'
      BY <1>10 DEF Return, IInv, TypeOK
    <2>. QED BY <1>10, <2>1, OutsideInv DEF Return
  <1>11. CASE Crash
    <2>1. TypeOK'
      <3>1. <<>> \in Seq(Frames)
        BY EmptySeq
      <3>2. failures' \in 0..MaxFailures
        BY <1>11 DEF Crash, Fails, IInv, TypeOK
      <3>. QED BY <1>11, <3>1, <3>2 DEF Crash, IInv, TypeOK
    <2>2. StackInv' /\ NumberInv' /\ AppendInv'
      BY <1>11 DEF Crash, StackInv, NumberInv, AppendInv
    <2>3. LogInv' /\ LogOrdered'
      BY <1>11, LogKept, PrintedLength DEF Crash, IInv
    <2>. QED BY <2>1, <2>2, <2>3 DEF IInv
  <1>12. CASE UNCHANGED vars
    BY <1>12 DEF vars, IInv, TypeOK, StackInv, NumberInv, LogInv, AppendInv, LogOrdered, Before
  <1>. QED BY <1>1, <1>2, <1>3, <1>4, <1>5, <1>6, <1>7, <1>8, <1>9, <1>10, <1>11, <1>12
           DEF Next, FwupLog

------------------------------------------------------------------------------

THEOREM Invariant == Spec => []IInv
  BY InitInv, NextInv, PTL DEF Spec

\* The state variables keep their types in every boot of any number.
THEOREM TypeCorrect == Spec => []TypeOK
  BY Invariant, PTL DEF IInv

\* The deletion that fwup_log starts enters it once more and no further.
THEOREM RecursionEnds == Spec => []RecursionBounded
  <1>1. IInv => RecursionBounded
    <2>. SUFFICES ASSUME IInv PROVE RecursionBounded
      OBVIOUS
    <2>1. stack # <<>> => Head(stack) = stack[1]
      BY TopFacts DEF IInv, TypeOK
    <2>2. Len(stack) = 2 => stack # <<>>
      OBVIOUS
    <2>. QED BY <2>1, <2>2 DEF IInv, StackInv, RecursionBounded
  <1>. QED BY <1>1, Invariant, PTL

\* FWUPDATE_DEBUG_LOG holds messages in the order they were logged.
THEOREM LogKeepsOrder == Spec => []LogOrdered
  BY Invariant, PTL DEF IInv

------------------------------------------------------------------------------
(* The log of a boot without failures *)

\* The call of fwup_log that the program made.
Outer == stack[Len(stack)]

\* The messages that are to be in the log, what of the log stays when the
\* outer call has written, and what that call writes.
Kept  == {m \in Range(printed) : ~m.nested}
Stays == IF once \/ (stack # <<>> /\ Outer.at = "set" /\ ~Outer.append)
            THEN {} ELSE Range(log)
Awaited == IF stack # <<>> /\ Outer.at # "format" THEN {Outer.message} ELSE {}

OnceInv ==
    /\ pc \in {"hook", "verbose"} => once /\ printed = <<>>
    /\ pc = "run" /\ once => /\ \A m \in Range(printed) : ~m.nested
                             /\ stack # <<>> => Outer.at # "set"

CompleteInv == OnceInv /\ (pc = "run" /\ failures = 0 => Kept = Stays \cup Awaited)

\* Either there is one call, or a nested one and the first one, which waits to
\* replace the log.
LEMMA OuterFacts ==
    ASSUME IInv, stack # <<>>
    PROVE  /\ stack \in Seq(Frames) /\ pc = "run" /\ Top = stack[1]
           /\ Tail(stack) \in Seq(Frames) /\ Len(Tail(stack)) = Len(stack) - 1
           /\ \A k \in 1..Len(stack) - 1 : Tail(stack)[k] = stack[k + 1]
           /\ \/ Len(stack) = 1 /\ Outer = Top /\ ~Top.message.nested
              \/ /\ Len(stack) = 2 /\ Outer = stack[2] /\ ~once
                 /\ Outer.at = "set" /\ ~Outer.append /\ Top.message.nested
  <1>1. stack \in Seq(Frames) /\ Len(stack) <= 2 /\ pc = "run"
    BY DEF IInv, TypeOK, StackInv
  <1>2. /\ Top = stack[1] /\ Len(stack) \in Nat /\ Len(stack) >= 1
        /\ Tail(stack) \in Seq(Frames) /\ Len(Tail(stack)) = Len(stack) - 1
        /\ \A k \in 1..Len(stack) - 1 : Tail(stack)[k] = stack[k + 1]
    BY <1>1, TopFacts DEF Top
  <1>3. Len(stack) = 1 \/ Len(stack) = 2
    BY <1>1, <1>2
  <1>4. CASE Len(stack) = 1
    BY <1>1, <1>2, <1>4 DEF IInv, StackInv, Outer
  <1>5. CASE Len(stack) = 2
    BY <1>1, <1>2, <1>5 DEF IInv, StackInv, Outer
  <1>. QED BY <1>1, <1>2, <1>3, <1>4, <1>5

LEMMA RangeAppend ==
    ASSUME NEW S, NEW s \in Seq(S), NEW e \in S
    PROVE  Range(Append(s, e)) = Range(s) \cup {e}
  <1>1. /\ DOMAIN s = 1..Len(s) /\ Len(s) \in Nat
        /\ DOMAIN Append(s, e) = 1..Len(s) + 1
    OBVIOUS
  <1>2. /\ \A p \in 1..Len(s) : Append(s, e)[p] = s[p]
        /\ Append(s, e)[Len(s) + 1] = e
    OBVIOUS
  <1>3. 1..Len(s) + 1 = 1..Len(s) \cup {Len(s) + 1}
    BY <1>1
  <1>4. \A x : x \in Range(Append(s, e)) <=>
               (\E p \in 1..Len(s) : Append(s, e)[p] = x) \/ Append(s, e)[Len(s) + 1] = x
    BY <1>1, <1>3 DEF Range
  <1>5. \A x : x \in Range(s) <=> \E p \in 1..Len(s) : s[p] = x
    BY <1>1 DEF Range
  <1>. QED BY <1>2, <1>4, <1>5

LEMMA CompletePrint == ASSUME IInv, CompleteInv, PrintMessage PROVE CompleteInv'
  <1>. DEFINE m == [Top.message EXCEPT !.number = Len(printed) + 1]
              f == [Top EXCEPT !.message = m, !.at = "append"]
  <1>1. /\ stack # <<>> /\ Top.at = "format" /\ stack' = Replace(f)
        /\ printed' = Append(printed, m)
        /\ UNCHANGED <<log, settings, pc, hook, debugging, once, boot, failures>>
    BY DEF PrintMessage
  <1>2. IInv'
    BY PrintInv
  <1>3. Top \in Frames /\ printed \in Seq(Formatted) /\ Len(printed) \in Nat
    BY <1>1, TopFacts DEF IInv, TypeOK, Top
  <1>4. m \in Formatted /\ m.nested = Top.message.nested
    <2>1. Top.message \in Messages
      BY <1>3 DEF Frames
    <2>2. /\ Top.message.boot \in Nat /\ Top.message.nested \in BOOLEAN
          /\ m = [boot |-> Top.message.boot, number |-> Len(printed) + 1,
                  nested |-> Top.message.nested]
      BY <2>1 DEF Messages
    <2>3. m \in Messages /\ m.number > 0
      BY <1>3, <2>2 DEF Messages
    <2>. QED BY <2>2, <2>3 DEF Formatted
  <1>5. f \in Frames /\ f.message = m /\ f.at = "append" /\ f.append = Top.append
    BY <1>3, <1>4 DEF Frames, Formatted
  <1>6. Range(printed') = Range(printed) \cup {m}
    BY <1>1, <1>3, <1>4, RangeAppend
  <1>7. /\ stack' # <<>> /\ Len(stack') = Len(stack) /\ stack'[1] = f
        /\ \A k \in 2..Len(stack) : stack'[k] = stack[k]
    <2>. HIDE DEF f, m
    <2>1. /\ stack' \in Seq(Frames) /\ Len(stack') = Len(stack) /\ stack'[1] = f
          /\ \A k \in 2..Len(stack) : stack'[k] = stack[k]
      BY <1>1, <1>5, ReplaceFacts DEF Replace, IInv, TypeOK
    <2>2. Len(stack) # 0
      BY <1>1, OuterFacts
    <2>. QED BY <2>1, <2>2
  <1>8. CASE Len(stack) = 1
    <2>1. Outer = Top /\ ~Top.message.nested /\ Outer' = f /\ Top = stack[1]
      BY <1>1, <1>7, <1>8, OuterFacts DEF Outer
    <2>. HIDE DEF f, m
    <2>2. Kept' = Kept \cup {m}
      BY <1>4, <1>6, <2>1 DEF Kept
    <2>3. Stays' = Stays /\ Awaited = {} /\ Awaited' = {m}
      BY <1>1, <1>5, <1>7, <2>1 DEF Stays, Awaited
    <2>4. OnceInv'
      <3>1. pc' = "run" /\ once' = once /\ Outer'.at # "set" /\ ~m.nested
        BY <1>1, <1>4, <1>5, <2>1, OuterFacts
      <3>2. once => \A x \in Range(printed') : ~x.nested
        BY <1>1, <1>6, <3>1, OuterFacts DEF CompleteInv, OnceInv
      <3>. QED BY <3>1, <3>2 DEF OnceInv
    <2>. QED BY <1>1, <2>2, <2>3, <2>4 DEF CompleteInv
  <1>9. CASE Len(stack) = 2
    <2>1. Outer' = Outer /\ Top.message.nested /\ ~once /\ pc = "run"
      <3>1. 2 \in 2..Len(stack)
        BY <1>9
      <3>. QED BY <1>1, <1>7, <1>9, <3>1, OuterFacts DEF Outer
    <2>. HIDE DEF f, m
    <2>2. Kept' = Kept
      BY <1>4, <1>6, <2>1 DEF Kept
    <2>3. Stays' = Stays /\ Awaited' = Awaited
      BY <1>1, <1>7, <2>1 DEF Stays, Awaited
    <2>. QED BY <1>1, <2>1, <2>2, <2>3 DEF CompleteInv, OnceInv
  <1>. QED BY <1>1, <1>8, <1>9, OuterFacts

LEMMA CompleteFirst == ASSUME IInv, CompleteInv, FirstMessage PROVE CompleteInv'
  <1>. DEFINE f == [Top EXCEPT !.at = "set"]
  <1>1. /\ stack # <<>> /\ Top.at = "append" /\ once = TRUE /\ once' = FALSE
        /\ stack' = <<Call(TRUE)>> \o Replace(f)
        /\ UNCHANGED <<log, settings, pc, hook, debugging, boot, printed, failures>>
    BY DEF FirstMessage, IInv, TypeOK
  <1>2. Len(stack) = 1 /\ Outer = Top /\ Top \in Frames /\ Top = stack[1] /\ pc = "run"
    BY <1>1, OuterFacts, TopFacts DEF IInv, TypeOK
  <1>3. f \in Frames /\ f.message = Top.message /\ f.at = "set" /\ f.append = Top.append
    BY <1>2 DEF Frames
  <1>4. ~Top.append
    BY <1>1, <1>2 DEF IInv, StackInv
  <1>5. stack' # <<>> /\ Outer' = f
    <2>1. Replace(f) \in Seq(Frames) /\ Len(Replace(f)) = 1 /\ Replace(f)[1] = f
      BY <1>1, <1>2, <1>3, ReplaceFacts DEF Replace, IInv, TypeOK
    <2>2. Call(TRUE) \in Frames
      BY DEF Call, Frames, Messages, IInv, TypeOK
    <2>. HIDE DEF f
    <2>3. \A r \in Seq(Frames), c \in Frames :
            Len(r) = 1 => Len(<<c>> \o r) = 2 /\ (<<c>> \o r)[2] = r[1]
      <3>1. ASSUME NEW r \in Seq(Frames), NEW c \in Frames, Len(r) = 1
            PROVE  Len(<<c>> \o r) = 2 /\ (<<c>> \o r)[2] = r[1]
        <4>1. /\ Len(<<c>> \o r) = Len(r) + 1
              /\ \A k \in 1..Len(r) : (<<c>> \o r)[k + 1] = r[k]
          BY PushFacts
        <4>2. 1 \in 1..Len(r) /\ 1 + 1 = 2
          BY <3>1
        <4>. QED BY <3>1, <4>1, <4>2
      <3>. QED BY <3>1
    <2>4. Len(stack') = 2 /\ stack'[2] = f
      BY <1>1, <2>1, <2>2, <2>3
    <2>. QED BY <2>4 DEF Outer
  <1>. HIDE DEF f
  <1>6. Kept' = Kept /\ Stays = {} /\ Stays' = {} /\ Awaited' = Awaited
    BY <1>1, <1>2, <1>3, <1>4, <1>5 DEF Kept, Stays, Awaited
  <1>. QED BY <1>1, <1>2, <1>6 DEF CompleteInv, OnceInv

LEMMA CompleteLater == ASSUME IInv, CompleteInv, LaterMessage PROVE CompleteInv'
  <1>. DEFINE f == [Top EXCEPT !.at = "set", !.append = TRUE]
  <1>1. /\ stack # <<>> /\ Top.at = "append" /\ stack' = Replace(f) /\ ~once
        /\ UNCHANGED <<log, settings, pc, hook, debugging, once, boot, printed, failures>>
    BY DEF LaterMessage
  <1>2. Top \in Frames /\ Top = stack[1] /\ pc = "run"
    BY <1>1, OuterFacts, TopFacts DEF IInv, TypeOK
  <1>3. f \in Frames /\ f.message = Top.message /\ f.at = "set" /\ f.append = TRUE
    BY <1>2 DEF Frames
  <1>. HIDE DEF f
  <1>4. /\ stack' \in Seq(Frames) /\ Len(stack') = Len(stack) /\ stack'[1] = f
        /\ \A k \in 2..Len(stack) : stack'[k] = stack[k]
    BY <1>1, <1>3, ReplaceFacts DEF Replace, IInv, TypeOK
  <1>5. stack' # <<>>
    BY <1>1, <1>4, OuterFacts
  <1>6. CASE Len(stack) = 1
    <2>1. Outer = Top /\ Outer' = f
      BY <1>1, <1>4, <1>6, OuterFacts DEF Outer
    <2>2. Kept' = Kept /\ Stays' = Stays /\ Awaited' = Awaited
      BY <1>1, <1>3, <1>5, <2>1 DEF Kept, Stays, Awaited
    <2>. QED BY <1>1, <1>2, <2>2 DEF CompleteInv, OnceInv
  <1>7. CASE Len(stack) = 2
    <2>1. Outer' = Outer
      <3>1. 2 \in 2..Len(stack)
        BY <1>7
      <3>. QED BY <1>1, <1>4, <1>7, <3>1, OuterFacts DEF Outer
    <2>2. Kept' = Kept /\ Stays' = Stays /\ Awaited' = Awaited
      BY <1>1, <1>5, <2>1 DEF Kept, Stays, Awaited
    <2>. QED BY <1>1, <1>2, <2>2 DEF CompleteInv, OnceInv
  <1>. QED BY <1>1, <1>6, <1>7, OuterFacts

\* A call returns: the nested one to the first, or the outer one when it has
\* written or had nothing to write.
LEMMA CompletePop ==
    ASSUME IInv, CompleteInv, stack # <<>>, stack' = Tail(stack),
           UNCHANGED <<pc, once, printed, failures>>,
           Len(stack) = 1 => Stays \cup Awaited = IF once THEN {} ELSE Range(log')
    PROVE  CompleteInv'
  <1>1. CASE Len(stack) = 1
    <2>1. stack' = <<>>
      BY <1>1, OuterFacts
    <2>2. Kept' = Kept /\ Stays' = (IF once THEN {} ELSE Range(log')) /\ Awaited' = {}
      BY <2>1 DEF Kept, Stays, Awaited
    <2>. QED BY <1>1, <2>1, <2>2, OuterFacts DEF CompleteInv, OnceInv
  <1>2. CASE Len(stack) = 2
    <2>1. Len(stack') = 1 /\ stack' # <<>> /\ Outer' = Outer
      <3>1. Len(stack') = 1 /\ stack'[1] = stack[2] /\ stack' # <<>>
        <4>1. Len(stack') = 1 /\ 1 \in 1..Len(stack) - 1 /\ 1 + 1 = 2
          BY <1>2, OuterFacts
        <4>2. stack' # <<>>
          <5>1. \A s \in Seq(Frames) : Len(s) = 1 => s # <<>>
            OBVIOUS
          <5>2. stack' \in Seq(Frames)
            BY OuterFacts
          <5>. QED BY <4>1, <5>1, <5>2
        <4>. QED BY <4>1, <4>2, OuterFacts
      <3>. QED BY <1>2, <3>1 DEF Outer
    <2>2. ~once /\ Outer.at = "set" /\ ~Outer.append /\ pc = "run"
      BY <1>2, OuterFacts
    <2>3. Kept' = Kept /\ Stays' = {} /\ Stays = {} /\ Awaited' = Awaited
      BY <2>1, <2>2 DEF Kept, Stays, Awaited
    <2>. QED BY <2>2, <2>3 DEF CompleteInv, OnceInv
  <1>. QED BY <1>1, <1>2, OuterFacts

\* A failing call writes nothing.
LEMMA CompleteFails ==
    ASSUME IInv, CompleteInv, stack # <<>>, stack' = Tail(stack), Fails,
           UNCHANGED <<pc, once, printed>>
    PROVE  CompleteInv'
  <1>1. pc = "run" /\ failures' # 0
    <2>1. failures \in Nat /\ failures' = failures + 1
      BY DEF IInv, TypeOK, Fails
    <2>. QED BY <2>1, OuterFacts
  <1>2. once => stack' = <<>>
    <2>1. once => Len(stack) = 1
      BY OuterFacts
    <2>2. Len(stack) = 1 => stack' = <<>>
      BY OuterFacts
    <2>. QED BY <2>1, <2>2
  <1>. QED BY <1>1, <1>2 DEF CompleteInv, OnceInv

LEMMA CompleteSet == ASSUME IInv, CompleteInv, SetLog PROVE CompleteInv'
  <1>1. /\ stack # <<>> /\ Top.at = "set" /\ log' = Written /\ stack' = Tail(stack)
        /\ UNCHANGED <<settings, pc, hook, debugging, once, boot, printed, failures>>
    BY DEF SetLog
  <1>2. ASSUME Len(stack) = 1
        PROVE  Stays \cup Awaited = IF once THEN {} ELSE Range(log')
    <2>1. Outer = Top /\ pc = "run" /\ Top = stack[1] /\ ~once
      BY <1>1, <1>2, OuterFacts DEF CompleteInv, OnceInv
    <2>2. Awaited = {Top.message}
      BY <1>1, <2>1 DEF Awaited
    <2>3. log \in Seq(Formatted) /\ Top.message \in Formatted
      <3>1. Top \in Frames /\ 1 \in DOMAIN stack
        BY <1>1, <1>2, <2>1, TopFacts DEF IInv, TypeOK
      <3>2. Top.message \in Messages /\ Top.message.number \in 1..Len(printed)
        BY <1>1, <2>1, <3>1 DEF IInv, NumberInv, Frames
      <3>. QED BY <3>2 DEF Formatted, IInv, TypeOK
    <2>4. CASE Top.append
      <3>1. Range(log') = Range(log) \cup {Top.message}
        BY <1>1, <2>3, <2>4, RangeAppend DEF Written
      <3>2. Stays = Range(log)
        BY <2>1, <2>4 DEF Stays
      <3>. QED BY <2>1, <2>2, <3>1, <3>2
    <2>5. CASE ~Top.append
      <3>1. Range(log') = {Top.message}
        <4>1. log' = <<Top.message>>
          BY <1>1, <2>5 DEF Written
        <4>2. \A x : Range(<<x>>) = {x}
          BY DEF Range
        <4>. QED BY <4>1, <4>2
      <3>2. Stays = {}
        BY <1>1, <2>1, <2>5 DEF Stays
      <3>. QED BY <2>1, <2>2, <3>1, <3>2
    <2>. QED BY <2>4, <2>5
  <1>. QED BY <1>1, <1>2, CompletePop

LEMMA CompleteNext == IInv /\ CompleteInv /\ [Next]_vars => CompleteInv'
  <1>. SUFFICES ASSUME IInv, CompleteInv, [Next]_vars PROVE CompleteInv'
    OBVIOUS
  <1>1. CASE Boot
    BY <1>1 DEF Boot, CompleteInv, OnceInv
  <1>2. CASE DebugHook
    <2>1. stack = <<>> /\ once /\ printed = <<>> /\ UNCHANGED <<once, printed>>
      BY <1>2 DEF DebugHook, ShimDebug, NoShimDebug, FwupdateVerbose, DataOverrun,
           CompleteInv, OnceInv, IInv, StackInv
    <2>2. Range(printed) = {}
      BY <2>1 DEF Range
    <2>3. stack' # <<>> => Outer'.at = "format"
      <3>1. \A c : Len(<<c>>) = 1 /\ <<c>>[1] = c
        OBVIOUS
      <3>. QED BY <1>2, <2>1, <3>1 DEF DebugHook, ShimDebug, NoShimDebug, FwupdateVerbose,
               DataOverrun, Outer, Call
    <2>4. Kept' = {} /\ Stays' = {} /\ Awaited' = {}
      BY <2>1, <2>2, <2>3 DEF Kept, Stays, Awaited
    <2>. QED BY <2>1, <2>2, <2>3, <2>4 DEF CompleteInv, OnceInv
  <1>3. CASE Log
    <2>1. /\ stack = <<>> /\ pc = "run" /\ stack' = <<Call(FALSE)>>
          /\ UNCHANGED <<log, pc, once, printed, failures>>
      BY <1>3 DEF Log
    <2>2. stack' # <<>> /\ Outer' = Call(FALSE) /\ Call(FALSE).at = "format"
      <3>1. \A c : Len(<<c>>) = 1 /\ <<c>>[1] = c /\ <<c>> # <<>>
        OBVIOUS
      <3>. QED BY <2>1, <3>1 DEF Outer, Call
    <2>3. Kept' = Kept /\ Stays' = Stays /\ Awaited' = Awaited
      BY <2>1, <2>2 DEF Kept, Stays, Awaited
    <2>. QED BY <2>1, <2>2, <2>3 DEF CompleteInv, OnceInv
  <1>4. CASE LogEnds
    <2>1. /\ stack # <<>> /\ Top.at = "format" /\ stack' = Tail(stack)
          /\ UNCHANGED <<log, pc, once, printed>>
          /\ Fails \/ UNCHANGED failures
      BY <1>4 DEF LogEnds
    <2>2. Len(stack) = 1 => Stays \cup Awaited = IF once THEN {} ELSE Range(log')
      BY <2>1, OuterFacts DEF Stays, Awaited
    <2>3. CASE UNCHANGED failures
      BY <2>1, <2>2, <2>3, CompletePop
    <2>4. CASE Fails
      BY <2>1, <2>4, CompleteFails
    <2>. QED BY <2>1, <2>3, <2>4
  <1>5. CASE PrintMessage
    BY <1>5, CompletePrint
  <1>6. CASE FirstMessage
    BY <1>6, CompleteFirst
  <1>7. CASE LaterMessage
    BY <1>7, CompleteLater
  <1>8. CASE SetLog
    BY <1>8, CompleteSet
  <1>9. CASE SetLogFails
    BY <1>9, CompleteFails DEF SetLogFails
  <1>10. CASE Return
    BY <1>10 DEF Return, CompleteInv, OnceInv
  <1>11. CASE Crash
    BY <1>11 DEF Crash, CompleteInv, OnceInv
  <1>12. CASE UNCHANGED vars
    BY <1>12 DEF vars, CompleteInv, OnceInv, Kept, Stays, Awaited, Outer
  <1>. QED BY <1>1, <1>2, <1>3, <1>4, <1>5, <1>6, <1>7, <1>8, <1>9, <1>10, <1>11, <1>12
           DEF Next, FwupLog

\* fwup_log: after a boot without failures the log holds the messages of that
\* boot but the nested one.
THEOREM LogIsComplete == Spec => []LogComplete
  <1>1. Init => CompleteInv
    BY DEF Init, CompleteInv, OnceInv
  <1>2. IInv /\ CompleteInv => LogComplete
    <2>. SUFFICES ASSUME IInv, CompleteInv, pc = "run", stack = <<>>, failures = 0,
                         printed # <<>>
                  PROVE  Range(log) = Kept
      BY DEF LogComplete, Kept
    <2>1. Kept = Stays /\ printed \in Seq(Formatted)
      BY DEF CompleteInv, Awaited, IInv, TypeOK
    <2>2. CASE once
      <3>1. Kept = {} /\ \A m \in Range(printed) : m \in Kept
        BY <2>1, <2>2 DEF Stays, CompleteInv, OnceInv, Kept
      <3>2. 1 \in DOMAIN printed
        BY <2>1
      <3>3. printed[1] \in Range(printed)
        BY <3>2 DEF Range
      <3>. QED BY <3>1, <3>3
    <2>3. CASE ~once
      BY <2>1, <2>3 DEF Stays
    <2>. QED BY <2>2, <2>3
  <1>. QED BY <1>1, <1>2, CompleteNext, Invariant, PTL DEF Spec

\* What the second GetVariable starts from: the size of the first setting if
\* there is one, and that no call failed only if the setting is not 1.
AtHook ==
    /\ pc \in {"hook", "verbose"} => ~overrun /\ ~debugging
    /\ pc = "hook" => data_size = 1
    /\ pc = "verbose" =>
         /\ data_size \in {1, settings["SHIM_DEBUG"].size}
         /\ failures = 0 => settings["SHIM_DEBUG"] # [size |-> 1, value |-> 1]

AskedInv == AtHook /\ VerboseIfAsked

LEMMA AskedHook == ASSUME IInv, AskedInv, DebugHook PROVE AskedInv'
  <1>1. /\ DOMAIN settings = {"SHIM_DEBUG", "FWUPDATE_VERBOSE"}
        /\ \A name \in DOMAIN settings : settings[name] \in Settings
        /\ \A name \in DOMAIN settings : settings[name].size \in Nat
        /\ data_size \in Nat /\ data_size >= 1 /\ failures \in Nat
    BY DEF IInv, TypeOK, Settings
  <1>2. CASE ShimDebug
    BY <1>1, <1>2 DEF ShimDebug, ReadsOne, AskedInv, AtHook, VerboseIfAsked
  <1>3. CASE NoShimDebug
    <2>1. data_size' \in {1, settings["SHIM_DEBUG"].size}
      BY <1>3, SizeAfterFits DEF NoShimDebug, AskedInv, AtHook, IInv
    <2>2. settings["SHIM_DEBUG"] = [size |-> 1, value |-> 1] => ReadsOne("SHIM_DEBUG")
      BY <1>1 DEF ReadsOne, Found
    <2>3. failures' = 0 => settings["SHIM_DEBUG"] # [size |-> 1, value |-> 1]
      BY <1>1, <1>3, <2>2 DEF NoShimDebug, Fails
    <2>. QED BY <1>3, <2>1, <2>3 DEF NoShimDebug, AskedInv, AtHook, VerboseIfAsked
  <1>4. CASE FwupdateVerbose
    <2>1. /\ pc = "verbose" /\ pc' = "run" /\ ~overrun' /\ settings' = settings
      BY <1>4 DEF FwupdateVerbose, AskedInv, AtHook
    <2>2. debugging' => settings["FWUPDATE_VERBOSE"].value = 1
      BY <1>4 DEF FwupdateVerbose, ReadsOne, AskedInv, AtHook
    <2>3. ASSUME failures' = 0, NEW name \in DOMAIN settings,
                 settings[name] = [size |-> 1, value |-> 1]
          PROVE  debugging'
      <3>1. failures = 0 /\ debugging' = ReadsOne("FWUPDATE_VERBOSE")
        BY <1>1, <1>4, <2>3 DEF FwupdateVerbose, Fails
      <3>2. name = "FWUPDATE_VERBOSE"
        BY <1>1, <2>1, <2>3, <3>1 DEF AskedInv, AtHook
      <3>3. ReadsOne("FWUPDATE_VERBOSE")
        BY <1>1, <2>3, <3>2 DEF ReadsOne, Found
      <3>. QED BY <3>1, <3>3
    <2>4. VerboseIfAsked'
      BY <1>1, <2>1, <2>2, <2>3 DEF VerboseIfAsked
    <2>. QED BY <2>1, <2>4 DEF AskedInv, AtHook
  <1>5. CASE DataOverrun
    <2>1. /\ settings["FWUPDATE_VERBOSE"].size \in 1..data_size
          /\ settings["FWUPDATE_VERBOSE"].size > DataBytes
          /\ pc = "verbose" /\ pc' \in {"run", "lost"} /\ overrun' /\ settings' = settings
      BY <1>5 DEF DataOverrun, Overruns, Found
    <2>2. data_size = settings["SHIM_DEBUG"].size /\ data_size > DataBytes
      BY <1>1, <2>1 DEF AskedInv, AtHook
    <2>. QED BY <1>1, <2>1, <2>2 DEF AskedInv, AtHook, VerboseIfAsked
  <1>. QED BY <1>2, <1>3, <1>4, <1>5 DEF DebugHook

\* fwup_debug_hook: one setting that holds 1 makes the run verbose, and only
\* such a setting does, unless both settings are longer than data, which is
\* then overrun.
THEOREM VerboseOnRequest == Spec => []VerboseIfAsked
  <1>1. Init => AskedInv
    BY DEF Init, AskedInv, AtHook, VerboseIfAsked
  <1>2. IInv /\ AskedInv /\ [Next]_vars => AskedInv'
    <2>. SUFFICES ASSUME IInv, AskedInv, [Next]_vars PROVE AskedInv'
      OBVIOUS
    <2>1. CASE DebugHook
      BY <2>1, AskedHook
    <2>2. CASE Boot
      BY <2>2 DEF Boot, AskedInv, AtHook, VerboseIfAsked
    <2>3. CASE ~DebugHook /\ ~Boot
      <3>1. /\ UNCHANGED <<settings, hook, debugging>>
            /\ pc' = pc \/ pc' = "boot"
        BY <2>3 DEF Next, FwupLog, Log, LogEnds, PrintMessage, FirstMessage, LaterMessage,
                    SetLog, SetLogFails, Return, Crash, vars
      <3>2. failures' = 0 => failures = 0
        <4>1. failures' = failures \/ failures' = failures + 1
          BY <2>3 DEF Next, FwupLog, Log, LogEnds, PrintMessage, FirstMessage, LaterMessage,
                      SetLog, SetLogFails, Return, Crash, Fails, vars
        <4>2. failures \in Nat
          BY DEF IInv, TypeOK
        <4>. QED BY <4>1, <4>2
      <3>. QED BY <3>1, <3>2 DEF AskedInv, AtHook, VerboseIfAsked
    <2>. QED BY <2>1, <2>2, <2>3
  <1>3. AskedInv => VerboseIfAsked
    BY DEF AskedInv
  <1>. QED BY <1>1, <1>2, <1>3, Invariant, PTL DEF Spec

------------------------------------------------------------------------------
(* The enumeration *)

EnumerationType ==
    /\ log_place \in LogPlaces \cup {0}
    /\ step \in {"version", "next", "seen", "end"}
    /\ variable_name \in 0..Debug_Log
    /\ visited \in Seq(Updates)

\* Nothing is logged from GetNextVariableName to the message about an update,
\* and nothing while the cursor is the log.
Quiet == step = "seen" \/ variable_name = Debug_Log => stack = <<>>

\* The cursor stands behind the updates that were visited and before the rest.
CursorAt ==
    /\ step = "version" => variable_name = 0 /\ visited = <<>>
    /\ step = "seen" => variable_name # 0
    /\ variable_name \in 0..NumUpdates =>
         Len(visited) = IF step = "seen" THEN variable_name - 1 ELSE variable_name
    /\ variable_name = Debug_Log => log_place = 2 * Len(visited) + 1
    /\ step = "end" => Len(visited) = NumUpdates

\* fwup_debug_hook comes first.
Hooked == pc = "hook" => step = "version"

EInv == EnumerationType /\ Quiet /\ CursorAt /\ VisitedInOrder /\ Hooked

USE NumUpdatesAssumption

LEMMA EInit == VerboseInit => EInv
  <1>1. <<>> \in Seq(Updates)
    BY EmptySeq
  <1>. QED BY <1>1 DEF VerboseInit, Init, EInv, EnumerationType, Quiet, CursorAt, VisitedInOrder,
               Hooked, Debug_Log

\* No more updates are visited than there are.
LEMMA VisitedBound == EInv => Len(visited) \in 0..NumUpdates
  <1>. SUFFICES ASSUME EInv PROVE Len(visited) \in 0..NumUpdates
    OBVIOUS
  <1>1. visited \in Seq(Updates) /\ Len(visited) \in Nat /\ DOMAIN visited = 1..Len(visited)
    BY DEF EInv, EnumerationType
  <1>2. CASE Len(visited) = 0
    BY <1>2
  <1>3. CASE Len(visited) # 0
    <2>1. Len(visited) \in DOMAIN visited
      BY <1>1, <1>3
    <2>2. visited[Len(visited)] \in Updates /\ visited[Len(visited)] = Len(visited)
      BY <1>1, <2>1 DEF EInv, VisitedInOrder
    <2>. QED BY <2>2 DEF Updates
  <1>. QED BY <1>2, <1>3

\* The updates behind the cursor are those that were not visited.
LEMMA UpdatesBehind ==
    ASSUME EInv, step = "next"
    PROVE  \A u \in Updates : u \in Behind <=> u > Len(visited)
  <1>. SUFFICES ASSUME NEW u \in Updates PROVE u \in Behind <=> u > Len(visited)
    OBVIOUS
  <1>1. u \in Listed /\ Place(u) = 2 * u /\ u \in Nat /\ u >= 1
    BY DEF Listed, Place, Updates, Debug_Log
  <1>2. Len(visited) \in Nat
    BY VisitedBound
  <1>3. u \in Behind <=> variable_name = 0 \/ 2 * u > Place(variable_name)
    BY <1>1 DEF Behind
  <1>4. CASE variable_name \in 0..NumUpdates
    <2>1. Len(visited) = variable_name /\ Place(variable_name) = 2 * variable_name
      BY <1>4 DEF EInv, CursorAt, Place, Debug_Log
    <2>. QED BY <1>1, <1>3, <1>4, <2>1
  <1>5. CASE variable_name = Debug_Log
    <2>1. Place(variable_name) = 2 * Len(visited) + 1 /\ variable_name # 0
      BY <1>5 DEF EInv, CursorAt, Place, Debug_Log
    <2>. QED BY <1>1, <1>2, <1>3, <2>1
  <1>. QED BY <1>4, <1>5 DEF EInv, EnumerationType, Debug_Log

LEMMA NextNameInv == ASSUME EInv, GetNextVariableName PROVE EInv'
  <1>. DEFINE k == Len(visited)
  <1>1. /\ stack = <<>> /\ step = "next"
        /\ UNCHANGED <<vars, log_place, visited>> /\ stack' = stack
    BY DEF GetNextVariableName, vars
  <1>0. pc' # "hook"
    BY DEF GetNextVariableName, vars
  <1>2. k \in 0..NumUpdates
    BY VisitedBound
  <1>3. \A u \in Updates : u \in Behind <=> u > k
    BY <1>1, UpdatesBehind
  <1>4. CASE Behind = {} /\ step' = "end" /\ UNCHANGED variable_name
    <2>1. k = NumUpdates
      <3>1. SUFFICES ASSUME k # NumUpdates PROVE FALSE
        OBVIOUS
      <3>2. k + 1 \in Updates /\ k + 1 > k
        BY <1>2, <3>1 DEF Updates
      <3>. QED BY <1>3, <1>4, <3>2
    <2>2. variable_name' = variable_name /\ step' = "end" /\ visited' = visited
          /\ log_place' = log_place
      BY <1>1, <1>4
    <2>3. EnumerationType' /\ Quiet' /\ VisitedInOrder' /\ Hooked'
      BY <1>0, <1>1, <2>2 DEF EInv, EnumerationType, Quiet, VisitedInOrder, Hooked
    <2>4. CursorAt'
      BY <1>1, <2>1, <2>2 DEF EInv, CursorAt
    <2>. QED BY <2>3, <2>4 DEF EInv
  <1>5. ASSUME NEW n \in Behind, \A m \in Behind : Place(n) <= Place(m),
               variable_name' = n, step' = "seen"
        PROVE  EInv'
    <2>1. n \in Listed /\ (n \in Updates \/ (n = Debug_Log /\ log_place # 0))
      BY DEF Behind, Listed
    <2>2. n \in 0..Debug_Log /\ n # 0
      BY <2>1 DEF Updates, Debug_Log
    <2>3. n \in 0..NumUpdates => k = n - 1
      <3>1. SUFFICES ASSUME n \in 0..NumUpdates PROVE k = n - 1
        OBVIOUS
      <3>2. n \in Updates /\ n > k /\ Place(n) = 2 * n
        BY <1>3, <2>2, <3>1 DEF Updates, Place, Debug_Log
      <3>3. k + 1 \in Updates /\ k + 1 \in Behind /\ Place(k + 1) = 2 * (k + 1)
        <4>1. k + 1 \in Updates /\ k + 1 > k /\ k + 1 # Debug_Log
          BY <1>2, <3>2 DEF Updates, Debug_Log
        <4>. QED BY <1>3, <4>1 DEF Place
      <3>4. 2 * n <= 2 * (k + 1)
        BY <1>5, <3>2, <3>3
      <3>. QED BY <1>2, <3>2, <3>4 DEF Updates
    <2>4. n = Debug_Log => log_place = 2 * k + 1
      <3>1. SUFFICES ASSUME n = Debug_Log PROVE log_place = 2 * k + 1
        OBVIOUS
      <3>2. n \notin Updates /\ Place(n) = log_place
        BY <3>1 DEF Updates, Place, Debug_Log
      <3>3. PICK j \in 0..NumUpdates : log_place = 2 * j + 1
        BY <2>1, <3>2 DEF EInv, EnumerationType, LogPlaces
      <3>4. j <= k
        <4>1. CASE k = NumUpdates
          BY <1>2, <4>1
        <4>2. CASE k # NumUpdates
          <5>1. k + 1 \in Updates /\ k + 1 > k /\ k + 1 # Debug_Log
            BY <1>2, <4>2 DEF Updates, Debug_Log
          <5>2. k + 1 \in Behind /\ Place(k + 1) = 2 * (k + 1)
            BY <1>3, <5>1 DEF Place
          <5>3. 2 * j + 1 <= 2 * (k + 1)
            BY <1>5, <3>2, <3>3, <5>2
          <5>. QED BY <1>2, <5>3
        <4>. QED BY <4>1, <4>2
      <3>5. j >= k
        <4>1. variable_name = 0 \/ log_place > Place(variable_name)
          BY <3>2 DEF Behind
        <4>2. variable_name # Debug_Log
          BY <1>2, <3>3, <4>1 DEF Place, Debug_Log
        <4>3. variable_name \in 0..NumUpdates /\ k = variable_name
          BY <1>1, <4>2 DEF EInv, EnumerationType, CursorAt, Debug_Log
        <4>4. Place(variable_name) = 2 * variable_name
          BY <4>2 DEF Place
        <4>. QED BY <1>2, <3>3, <4>1, <4>3, <4>4
      <3>. QED BY <1>2, <3>3, <3>4, <3>5
    <2>5. EnumerationType' /\ Quiet' /\ VisitedInOrder' /\ Hooked'
      BY <1>0, <1>1, <1>5, <2>2 DEF EInv, EnumerationType, Quiet, VisitedInOrder, Hooked
    <2>6. CursorAt'
      BY <1>1, <1>5, <2>2, <2>3, <2>4 DEF CursorAt
    <2>. QED BY <2>5, <2>6 DEF EInv
  <1>. QED BY <1>4, <1>5 DEF GetNextVariableName

\* An update's message is logged and the update counted.
LEMMA FoundInv == ASSUME EInv, FoundUpdate PROVE EInv'
  <1>. DEFINE k == Len(visited)
  <1>1. /\ step = "seen" /\ variable_name \in Updates /\ step' = "next"
        /\ visited' = Append(visited, variable_name)
        /\ UNCHANGED <<variable_name, log_place>>
    BY DEF FoundUpdate
  <1>2. /\ visited \in Seq(Updates) /\ k \in Nat /\ DOMAIN visited = 1..k
        /\ variable_name \in 1..NumUpdates /\ variable_name # Debug_Log
    BY <1>1 DEF EInv, EnumerationType, Updates, Debug_Log
  <1>3. k = variable_name - 1
    BY <1>1, <1>2 DEF EInv, CursorAt
  <1>4. /\ visited' \in Seq(Updates) /\ Len(visited') = k + 1 /\ DOMAIN visited' = 1..k + 1
        /\ visited'[k + 1] = variable_name /\ \A p \in 1..k : visited'[p] = visited[p]
    BY <1>1, <1>2
  <1>5. EnumerationType' /\ Quiet' /\ Hooked'
    <2>1. pc' = "run"
      BY DEF FoundUpdate, Log
    <2>. QED BY <1>1, <1>2, <1>4, <2>1 DEF EInv, EnumerationType, Quiet, Hooked
  <1>6. CursorAt'
    BY <1>1, <1>2, <1>3, <1>4 DEF CursorAt
  <1>7. VisitedInOrder'
    <2>1. ASSUME NEW p \in DOMAIN visited' PROVE visited'[p] = p
      <3>1. p \in 1..k \/ p = k + 1
        BY <1>2, <1>4, <2>1
      <3>. QED BY <1>2, <1>3, <1>4, <3>1 DEF EInv, VisitedInOrder
    <2>. QED BY <2>1 DEF VisitedInOrder
  <1>. QED BY <1>5, <1>6, <1>7 DEF EInv

\* A step that leaves the enumeration alone, and the log where it is unless
\* something is being logged; only before the enumeration is a call of
\* fwup_log started.
LEMMA ElsewhereInv ==
    ASSUME EInv, UNCHANGED enumeration, log_place' \in LogPlaces \cup {0},
           log_place' = log_place \/ stack # <<>>, pc' = "hook" => pc = "hook",
           stack = <<>> => stack' = <<>> \/ step = "version"
    PROVE  EInv'
  <1>1. UNCHANGED <<step, variable_name, visited>>
    BY DEF enumeration
  <1>2. variable_name = Debug_Log => log_place' = log_place
    BY DEF EInv, Quiet
  <1>3. EnumerationType' /\ VisitedInOrder'
    BY <1>1 DEF EInv, EnumerationType, VisitedInOrder
  <1>4. Quiet' /\ Hooked'
    <2>1. step = "version" => variable_name # Debug_Log
      BY DEF EInv, CursorAt, Debug_Log
    <2>. QED BY <1>1, <2>1 DEF EInv, Quiet, Hooked
  <1>5. CursorAt'
    BY <1>1, <1>2 DEF EInv, CursorAt
  <1>. QED BY <1>3, <1>4, <1>5 DEF EInv

LEMMA ENext == EInv /\ [VerboseNext]_allVars => EInv'
  <1>. SUFFICES ASSUME EInv, [VerboseNext]_allVars PROVE EInv'
    OBVIOUS
  <1>1. CASE Booted
    <2>1. <<>> \in Seq(Updates)
      BY EmptySeq
    <2>. QED BY <1>1, <2>1 DEF Booted, Boot, EInv, EnumerationType, Quiet, CursorAt,
             VisitedInOrder, Hooked, Debug_Log
  <1>2. CASE LogVersion
    BY <1>2 DEF LogVersion, Log, EInv, EnumerationType, Quiet, CursorAt, VisitedInOrder, Hooked,
                Debug_Log
  <1>3. CASE GetNextVariableName
    BY <1>3, NextNameInv
  <1>4. CASE FoundUpdate
    BY <1>4, FoundInv
  <1>5. CASE SkipSetting
    <2>1. /\ step = "seen" /\ variable_name = Debug_Log /\ step' = "next"
          /\ UNCHANGED <<variable_name, visited, log_place, stack>> /\ pc' = "run"
      BY <1>5 DEF SkipSetting, vars
    <2>2. variable_name \notin 0..NumUpdates
      BY <2>1 DEF Debug_Log
    <2>. QED BY <2>1, <2>2 DEF EInv, EnumerationType, Quiet, CursorAt, VisitedInOrder, Hooked
  <1>6. CASE LogWritten
    <2>1. stack # <<>> /\ log_place' \in LogPlaces /\ UNCHANGED enumeration /\ pc' = pc
      BY <1>6 DEF LogWritten, SetLog, Moves
    <2>. QED BY <2>1, ElsewhereInv
  <1>7. CASE LogStep
    <2>1. UNCHANGED enumeration /\ log_place' = log_place
      BY <1>7 DEF LogStep
    <2>2. /\ stack = <<>> => stack' = <<>> \/ step = "version"
          /\ pc' = "hook" => pc = "hook"
      BY <1>7 DEF LogStep, DebugHook, ShimDebug, NoShimDebug, FwupdateVerbose, DataOverrun, LogEnds,
                  PrintMessage, FirstMessage, LaterMessage, SetLogFails, EInv, Hooked
    <2>. QED BY <2>1, <2>2, ElsewhereInv DEF EInv, EnumerationType
  <1>8. CASE Stops
    <2>1. UNCHANGED enumeration /\ log_place' = log_place
      BY <1>8 DEF Stops
    <2>2. (stack = <<>> => stack' = <<>>) /\ pc' # "hook"
      BY <1>8 DEF Stops, Return, Crash
    <2>. QED BY <2>1, <2>2, ElsewhereInv DEF EInv, EnumerationType
  <1>9. CASE UNCHANGED allVars
    BY <1>9, ElsewhereInv DEF allVars, vars, EInv, EnumerationType
  <1>. QED BY <1>1, <1>2, <1>3, <1>4, <1>5, <1>6, <1>7, <1>8, <1>9
           DEF VerboseNext, Program, Enumerate

------------------------------------------------------------------------------

THEOREM EnumerationInvariant == VerboseSpec => []EInv
  BY EInit, ENext, PTL DEF VerboseSpec

\* A verbose boot is a run of the debug log: what is proved of the log and of
\* fwup_log holds while the state variables are enumerated.
THEOREM RefinesDebugLog == VerboseSpec => Spec
  <1>1. VerboseInit => Init
    BY DEF VerboseInit
  <1>2. [VerboseNext]_allVars => [Next]_vars
    BY DEF VerboseNext, Program, Enumerate, Booted, LogVersion, GetNextVariableName, FoundUpdate,
           SkipSetting, LogWritten, LogStep, Stops, Next, FwupLog, allVars
  <1>. QED BY <1>1, <1>2, PTL DEF VerboseSpec, Spec

\* fwup_populate_update_table: no update is found twice, and when nothing more
\* is enumerated none was passed over, wherever SetVariable puts the log that
\* is enumerated with them.
THEOREM EveryUpdateVisited == VerboseSpec => []EveryUpdateOnce
  <1>1. EInv => EveryUpdateOnce
    BY DEF EInv, CursorAt, VisitedAll, EveryUpdateOnce
  <1>. QED BY <1>1, EnumerationInvariant, PTL

\* The log is among the variables if and only if it was written; the cursor
\* always names a variable that exists.
THEOREM VerboseTypes == VerboseSpec => []VerboseTypeOK
  <1>. DEFINE Exists == log_place = 0 <=> log = <<>>
  <1>1. VerboseInit => Exists
    BY DEF VerboseInit, Init
  <1>2. TypeOK /\ Exists /\ [VerboseNext]_allVars => Exists'
    <2>. SUFFICES ASSUME TypeOK, Exists, [VerboseNext]_allVars PROVE Exists'
      OBVIOUS
    <2>1. CASE LogWritten
      <3>1. log' # <<>>
        <4>1. log \in Seq(Formatted) /\ Len(log) \in Nat /\ log' = Written
          BY <2>1 DEF LogWritten, SetLog, TypeOK
        <4>2. ASSUME NEW m PROVE Append(log, m) # <<>> /\ <<m>> # <<>>
          <5>1. Len(Append(log, m)) = Len(log) + 1
            BY <4>1
          <5>. QED BY <4>1, <5>1
        <4>. QED BY <4>1, <4>2 DEF Written
      <3>2. log_place' # 0
        BY <2>1 DEF LogWritten, Moves, LogPlaces
      <3>. QED BY <3>1, <3>2
    <2>2. CASE ~LogWritten
      <3>1. log' = log /\ log_place' = log_place
        BY <2>2 DEF VerboseNext, Program, Enumerate, Booted, Boot, LogVersion, Log, FoundUpdate,
             GetNextVariableName, SkipSetting, LogStep, DebugHook, ShimDebug, NoShimDebug,
             FwupdateVerbose, DataOverrun, LogEnds, PrintMessage, FirstMessage, LaterMessage,
             SetLogFails, Stops, Return, Crash, allVars, vars
      <3>. QED BY <3>1
    <2>. QED BY <2>1, <2>2
  <1>3. EInv /\ Exists => VerboseTypeOK
    <2>. SUFFICES ASSUME EInv, Exists PROVE VerboseTypeOK
      OBVIOUS
    <2>1. Len(visited) \in Nat
      BY VisitedBound
    <2>2. variable_name = Debug_Log => log_place # 0
      BY <2>1 DEF EInv, CursorAt
    <2>3. variable_name \in {0} \cup Listed
      BY <2>2 DEF EInv, EnumerationType, Listed, Updates, Debug_Log
    <2>. QED BY <2>3 DEF EInv, EnumerationType, VerboseTypeOK
  <1>. HIDE DEF Exists
  <1>4. VerboseSpec => []TypeOK
    BY RefinesDebugLog, TypeCorrect
  <1>. QED BY <1>1, <1>2, <1>3, <1>4, EnumerationInvariant, PTL DEF VerboseSpec

\* What is proved of the log holds of it while it is among the variables that
\* are enumerated and moves in their list: fwup_log is entered again at most
\* once, the log is in order, and complete where nothing failed.
THEOREM LogWhileEnumerating ==
    VerboseSpec => []RecursionBounded /\ []LogOrdered /\ []LogComplete /\ []VerboseIfAsked
  BY RefinesDebugLog, RecursionEnds, LogKeepsOrder, LogIsComplete, VerboseOnRequest

------------------------------------------------------------------------------
(* The enumeration of a log that runs ahead of it *)

\* Steps of one round of the loop: the log is found at most once between two
\* updates.
RoundLeft ==
    CASE step = "version" -> 5
      [] step = "next" /\ variable_name # Debug_Log -> 4
      [] step = "seen" /\ variable_name = Debug_Log -> 3
      [] step = "next" /\ variable_name = Debug_Log -> 2
      [] step = "seen" /\ variable_name # Debug_Log -> 1
      [] step = "end" -> 0

\* Steps of a call of fwup_log, by where it is; of the calls in progress, and of
\* the one that the first message still has to start.
CallLeft(at) == CASE at = "format" -> 3 [] at = "append" -> 2 [] at = "set" -> 1

FrameLeft(s, k) == IF k <= Len(s) THEN CallLeft(s[k].at) ELSE 0

\* The message of fwup_debug_hook is one that the enumeration does not log.
HookLeft == IF pc = "hook" THEN 4 ELSE IF pc = "verbose" THEN 1 ELSE 0

LogLeft == HookLeft + (IF once THEN 3 ELSE 0) + FrameLeft(stack, 1) + FrameLeft(stack, 2)

\* The steps left at most of a boot, where no round takes more than ten steps
\* for each of its own.
StepsLeft == 10 * (6 * (NumUpdates - Len(visited)) + RoundLeft) + LogLeft

LEMMA FrameLeftIs ==
    ASSUME NEW s \in Seq(Frames), NEW k \in {1, 2}
    PROVE  /\ FrameLeft(s, k) \in 0..3
           /\ Len(s) < k => FrameLeft(s, k) = 0
           /\ k <= Len(s) => /\ s[k].at = "format" => FrameLeft(s, k) = 3
                             /\ s[k].at = "append" => FrameLeft(s, k) = 2
                             /\ s[k].at = "set" => FrameLeft(s, k) = 1
  <1>1. /\ CallLeft("format") = 3 /\ CallLeft("append") = 2 /\ CallLeft("set") = 1
    BY DEF CallLeft
  <1>2. Len(s) \in Nat
    OBVIOUS
  <1>3. CASE k <= Len(s)
    <2>1. s[k].at \in {"format", "append", "set"}
      <3>1. s[k] \in Frames
        BY <1>2, <1>3
      <3>. QED BY <3>1 DEF Frames
    <2>2. FrameLeft(s, k) = CallLeft(s[k].at)
      BY <1>3 DEF FrameLeft
    <2>. QED BY <1>1, <1>2, <1>3, <2>1, <2>2
  <1>4. CASE ~(k <= Len(s))
    BY <1>2, <1>4 DEF FrameLeft
  <1>. QED BY <1>3, <1>4

LEMMA CallFormats ==
    ASSUME NEW nested \in BOOLEAN, boot \in Nat
    PROVE  Call(nested) \in Frames /\ Call(nested).at = "format"
  BY DEF Frames, Messages, Call

LEMMA OneFrameLeft ==
    ASSUME NEW f \in Frames, f.at = "format"
    PROVE  /\ FrameLeft(<<>>, 1) = 0 /\ FrameLeft(<<>>, 2) = 0
           /\ FrameLeft(<<f>>, 1) = 3 /\ FrameLeft(<<f>>, 2) = 0
  <1>1. Len(<<>>) = 0 /\ Len(<<f>>) = 1 /\ <<f>>[1] = f
    OBVIOUS
  <1>. QED BY <1>1 DEF FrameLeft, CallLeft

\* The calls of fwup_log in progress are at most two.
LEMMA LogLeftIs ==
    ASSUME TypeOK, StackInv
    PROVE  /\ LogLeft \in 0..10
           /\ stack \in Seq(Frames) /\ Len(stack) \in Nat /\ Len(stack) <= 2
           /\ FrameLeft(stack, 1) \in 0..3 /\ FrameLeft(stack, 2) \in 0..3
  <1>1. stack \in Seq(Frames) /\ Len(stack) \in Nat /\ Len(stack) <= 2
    BY DEF TypeOK, StackInv
  <1>2. FrameLeft(stack, 1) \in 0..3 /\ FrameLeft(stack, 2) \in 0..3
    BY <1>1, FrameLeftIs
  <1>3. CASE stack = <<>>
    <2>1. FrameLeft(stack, 1) = 0 /\ FrameLeft(stack, 2) = 0
      <3>1. Len(stack) = 0
        BY <1>3
      <3>. QED BY <3>1 DEF FrameLeft
    <2>. QED BY <1>1, <1>2, <2>1 DEF LogLeft, HookLeft
  <1>4. CASE stack # <<>>
    BY <1>1, <1>2, <1>4 DEF LogLeft, HookLeft, StackInv
  <1>. QED BY <1>3, <1>4

LEMMA LogLeftNext ==
    ASSUME TypeOK', StackInv'
    PROVE  LogLeft' \in Nat
  <1>1. stack' \in Seq(Frames)
    BY DEF TypeOK
  <1>2. FrameLeft(stack', 1) \in 0..3 /\ FrameLeft(stack', 2) \in 0..3
    BY <1>1, FrameLeftIs
  <1>. QED BY <1>2 DEF LogLeft, HookLeft

\* A sum falls with its first part.
LEMMA SumFalls ==
    ASSUME NEW h \in Nat, NEW h2 \in Nat, NEW r \in Nat, NEW a \in Nat, NEW b \in Nat, h2 < h
    PROVE  h2 + r + a + b < h + r + a + b
  OBVIOUS

\* A step of fwup_log leaves fewer to be made.
LEMMA LogLeftFalls ==
    ASSUME IInv, IInv', DebugHook \/ FwupLog
    PROVE  LogLeft' < LogLeft
  <1>1. /\ stack \in Seq(Frames) /\ Len(stack) \in Nat /\ Len(stack) <= 2
        /\ FrameLeft(stack, 1) \in 0..3 /\ FrameLeft(stack, 2) \in 0..3 /\ once \in BOOLEAN
    BY LogLeftIs DEF IInv, TypeOK
  <1>a. /\ stack' \in Seq(Frames) /\ Len(stack') \in Nat /\ Len(stack') <= 2
    BY DEF IInv, TypeOK, StackInv
  <1>2. CASE DebugHook
    <2>1. CASE ShimDebug
      <3>. DEFINE call == Call(FALSE)
      <3>1. call \in Frames /\ call.at = "format"
        <4>1. boot \in Nat /\ FALSE \in BOOLEAN
          BY DEF IInv, TypeOK
        <4>. QED BY <4>1, CallFormats, Zenon
      <3>2. pc = "hook" /\ pc' = "run" /\ stack = <<>> /\ stack' = <<call>> /\ once' = once
        BY <2>1 DEF ShimDebug, IInv, StackInv
      <3>. HIDE DEF call
      <3>3. /\ FrameLeft(stack, 1) = 0 /\ FrameLeft(stack, 2) = 0
            /\ FrameLeft(stack', 1) = 3 /\ FrameLeft(stack', 2) = 0
        BY <3>1, <3>2, OneFrameLeft
      <3>4. HookLeft = 4 /\ HookLeft' = 0
        BY <3>2 DEF HookLeft
      <3>. QED BY <1>1, <3>2, <3>3, <3>4 DEF LogLeft
    <2>2. CASE NoShimDebug \/ FwupdateVerbose \/ DataOverrun
      <3>1. UNCHANGED <<once, stack>>
        BY <2>2 DEF NoShimDebug, FwupdateVerbose, DataOverrun
      <3>2. HookLeft' < HookLeft /\ HookLeft \in Nat /\ HookLeft' \in Nat
        BY <2>2 DEF NoShimDebug, FwupdateVerbose, DataOverrun, HookLeft
      <3>. DEFINE rest == IF once THEN 3 ELSE 0
                  a == FrameLeft(stack, 1)
                  b == FrameLeft(stack, 2)
      <3>3. /\ LogLeft = HookLeft + rest + a + b
            /\ LogLeft' = HookLeft' + rest + a + b
        BY <3>1 DEF LogLeft
      <3>4. rest \in Nat /\ a \in Nat /\ b \in Nat
        BY <1>1
      <3>. HIDE DEF rest, a, b
      <3>5. HookLeft' + rest + a + b < HookLeft + rest + a + b
        BY <3>2, <3>4, SumFalls
      <3>. QED BY <3>3, <3>5
    <2>. QED BY <1>2, <2>1, <2>2 DEF DebugHook
  <1>3. CASE LogEnds \/ SetLog \/ SetLogFails
    <2>1. /\ stack # <<>> /\ stack' = Tail(stack) /\ UNCHANGED <<pc, once>>
          /\ Head(stack).at \in {"format", "set"}
      BY <1>3 DEF LogEnds, SetLog, SetLogFails, Top
    <2>2. stack[1].at \in {"format", "set"} /\ 1 <= Len(stack)
      BY <1>1, <2>1
    <2>3. FrameLeft(stack, 1) >= 1
      BY <1>1, <2>2, FrameLeftIs
    <2>4. Len(stack') = Len(stack) - 1 /\ (Len(stack) = 2 => stack'[1] = stack[2])
      BY <1>1, <2>1
    <2>5. FrameLeft(stack', 1) = FrameLeft(stack, 2) /\ FrameLeft(stack', 2) = 0
      BY <1>1, <2>4 DEF FrameLeft
    <2>. QED BY <1>1, <2>1, <2>3, <2>5 DEF LogLeft, HookLeft
  <1>4. CASE PrintMessage \/ LaterMessage
    <2>1. PICK frame \in Frames : stack # <<>> /\ stack' = Replace(frame) /\ UNCHANGED <<pc, once>>
             /\ \/ Head(stack).at = "format" /\ frame.at = "append"
                \/ Head(stack).at = "append" /\ frame.at = "set"
      <3>1. CASE PrintMessage
        <4>. DEFINE m == [Top.message EXCEPT !.number = Len(printed) + 1]
                    frame == [Top EXCEPT !.message = m, !.at = "append"]
        <4>1. stack # <<>> /\ Head(stack) \in Frames
          BY <1>1, <3>1 DEF PrintMessage
        <4>2. frame \in Frames /\ frame.at = "append"
          <5>1. Len(printed) + 1 \in Nat
            BY PrintedLength DEF IInv
          <5>2. m \in Messages
            BY <4>1, <5>1 DEF Top, Frames, Messages
          <5>. QED BY <4>1, <5>2 DEF Top, Frames
        <4>3. stack' = Replace(frame) /\ UNCHANGED <<pc, once>> /\ Head(stack).at = "format"
          BY <3>1 DEF PrintMessage, Top
        <4>. HIDE DEF frame
        <4>. QED BY <4>1, <4>2, <4>3
      <3>2. CASE LaterMessage
        <4>. DEFINE frame == [Top EXCEPT !.at = "set", !.append = TRUE]
        <4>1. stack # <<>> /\ Head(stack) \in Frames
          BY <1>1, <3>2 DEF LaterMessage
        <4>2. frame \in Frames /\ frame.at = "set"
          BY <4>1 DEF Top, Frames
        <4>3. stack' = Replace(frame) /\ UNCHANGED <<pc, once>> /\ Head(stack).at = "append"
          BY <3>2 DEF LaterMessage, Top
        <4>. HIDE DEF frame
        <4>. QED BY <4>1, <4>2, <4>3
      <3>. QED BY <1>4, <3>1, <3>2
    <2>2. Len(stack') = Len(stack) /\ stack'[1] = frame /\ (Len(stack) = 2 => stack'[2] = stack[2])
      <3>1. /\ Len(<<frame>> \o Tail(stack)) = Len(stack) /\ (<<frame>> \o Tail(stack))[1] = frame
            /\ \A k \in 2..Len(stack) : (<<frame>> \o Tail(stack))[k] = stack[k]
        BY <1>1, <2>1, ReplaceFacts
      <3>. QED BY <1>1, <2>1, <3>1 DEF Replace
    <2>3. Head(stack) = stack[1] /\ 1 <= Len(stack)
      BY <1>1, <2>1
    <2>4. FrameLeft(stack', 1) < FrameLeft(stack, 1) /\ FrameLeft(stack', 1) \in Nat
      BY <1>1, <1>a, <2>1, <2>2, <2>3, FrameLeftIs
    <2>5. FrameLeft(stack', 2) = FrameLeft(stack, 2)
      BY <1>1, <2>2 DEF FrameLeft
    <2>. QED BY <1>1, <2>1, <2>4, <2>5 DEF LogLeft, HookLeft
  <1>5. CASE FirstMessage
    <2>. DEFINE f == [Top EXCEPT !.at = "set"]
                below == <<f>> \o Tail(stack)
    <2>1. /\ stack # <<>> /\ Head(stack).at = "append" /\ once /\ ~once' /\ pc' = pc
          /\ stack' = <<Call(TRUE)>> \o below
      BY <1>5 DEF FirstMessage, Top, Replace, IInv, TypeOK
    <2>2. Head(stack) = stack[1] /\ Head(stack) \in Frames /\ Len(stack) = 1
      BY <1>1, <2>1 DEF IInv, StackInv
    <2>3. f \in Frames /\ f.at = "set" /\ Call(TRUE) \in Frames /\ Call(TRUE).at = "format"
      <3>1. f \in Frames /\ f.at = "set"
        BY <2>2 DEF Top, Frames
      <3>2. boot \in Nat /\ TRUE \in BOOLEAN
        BY DEF IInv, TypeOK
      <3>3. Call(TRUE) \in Frames /\ Call(TRUE).at = "format"
        BY <3>2, CallFormats, Zenon
      <3>. QED BY <3>1, <3>3
    <2>4. below \in Seq(Frames) /\ Len(below) = 1 /\ below[1] = f
      <3>. HIDE DEF f
      <3>. QED BY <1>1, <2>1, <2>2, <2>3, ReplaceFacts
    <2>5. Len(stack') = 2 /\ stack'[1] = Call(TRUE) /\ stack'[2] = f
      <3>. HIDE DEF f, below
      <3>1. 1 \in 1..Len(below) /\ 1 + 1 = 2
        BY <2>4
      <3>. QED BY <2>1, <2>3, <2>4, <3>1, PushFacts
    <2>. HIDE DEF f
    <2>6. FrameLeft(stack, 1) = 2 /\ FrameLeft(stack, 2) = 0
      BY <1>1, <2>1, <2>2, FrameLeftIs
    <2>7. FrameLeft(stack', 1) = 3 /\ FrameLeft(stack', 2) = 1
      <3>1. 1 <= Len(stack') /\ 2 <= Len(stack')
        BY <2>5
      <3>2. stack'[1].at = "format" /\ stack'[2].at = "set"
        BY <2>3, <2>5
      <3>. QED BY <1>a, <3>1, <3>2, FrameLeftIs
    <2>8. LogLeft = HookLeft + 3 + 2 + 0
      BY <2>1, <2>6 DEF LogLeft
    <2>9. LogLeft' = HookLeft + 0 + 3 + 1
      BY <2>1, <2>7 DEF LogLeft, HookLeft
    <2>10. HookLeft \in Nat
      BY DEF HookLeft
    <2>. QED BY <2>8, <2>9, <2>10
  <1>. QED BY <1>2, <1>3, <1>4, <1>5 DEF FwupLog

\* A step of the enumeration takes a round further; it logs at most once.
LEMMA RoundLeftFalls ==
    ASSUME EInv, TypeOK, StackInv, LogVersion \/ Enumerate
    PROVE  /\ 6 * (NumUpdates - Len(visited')) + RoundLeft'
                < 6 * (NumUpdates - Len(visited)) + RoundLeft
           /\ LogLeft' <= LogLeft + 3
  <1>1. /\ Len(visited) \in Nat /\ variable_name \in 0..Debug_Log /\ NumUpdates \in Nat
        /\ Debug_Log = NumUpdates + 1
    BY VisitedBound DEF EInv, EnumerationType, Debug_Log
  <1>2. ASSUME Log PROVE LogLeft' = LogLeft + 3
    <2>1. stack = <<>> /\ stack' = <<Call(FALSE)>> /\ UNCHANGED <<pc, once>> /\ once \in BOOLEAN
      BY <1>2 DEF Log, TypeOK
    <2>2. Call(FALSE) \in Frames /\ Call(FALSE).at = "format"
      <3>1. boot \in Nat /\ FALSE \in BOOLEAN
        BY DEF TypeOK
      <3>. QED BY <3>1, CallFormats, Zenon
    <2>. DEFINE call == Call(FALSE)
    <2>3. call \in Frames /\ call.at = "format" /\ stack' = <<call>>
      BY <2>1, <2>2
    <2>. HIDE DEF call
    <2>4. /\ FrameLeft(stack, 1) = 0 /\ FrameLeft(stack, 2) = 0
          /\ FrameLeft(stack', 1) = 3 /\ FrameLeft(stack', 2) = 0
      BY <2>1, <2>3, OneFrameLeft
    <2>. QED BY <2>1, <2>4 DEF LogLeft, HookLeft
  <1>3. ASSUME UNCHANGED vars PROVE LogLeft' <= LogLeft + 3
    <2>1. LogLeft' = LogLeft
      BY <1>3 DEF vars, LogLeft, HookLeft
    <2>. QED BY <2>1, LogLeftIs
  <1>4. CASE LogVersion
    <2>1. Log /\ step = "version" /\ step' = "next" /\ visited' = visited
      BY <1>4 DEF LogVersion
    <2>2. RoundLeft = 5 /\ (RoundLeft' = 4 \/ RoundLeft' = 2)
      BY <2>1 DEF RoundLeft
    <2>3. LogLeft \in 0..10
      BY LogLeftIs
    <2>. QED BY <1>1, <1>2, <2>1, <2>2, <2>3
  <1>5. CASE GetNextVariableName
    <2>1. /\ step = "next" /\ visited' = visited /\ UNCHANGED vars
          /\ \/ step' = "end"
             \/ step' = "seen" /\ variable_name' \in Behind
      BY <1>5 DEF GetNextVariableName
    <2>2. variable_name = Debug_Log => Debug_Log \notin Behind
      <3>1. variable_name = Debug_Log => ~(Place(Debug_Log) > Place(variable_name))
        <4>1. log_place \in Nat
          BY DEF EInv, EnumerationType, LogPlaces
        <4>. QED BY <4>1 DEF Place
      <3>. QED BY <1>1, <3>1 DEF Behind
    <2>3. CASE variable_name = Debug_Log
      <3>1. RoundLeft = 2 /\ (RoundLeft' = 0 \/ RoundLeft' = 1)
        BY <2>1, <2>2, <2>3 DEF RoundLeft
      <3>. QED BY <1>1, <1>3, <2>1, <3>1
    <2>4. CASE variable_name # Debug_Log
      <3>1. RoundLeft = 4 /\ (RoundLeft' = 0 \/ RoundLeft' = 1 \/ RoundLeft' = 3)
        BY <2>1, <2>4 DEF RoundLeft
      <3>. QED BY <1>1, <1>3, <2>1, <3>1
    <2>. QED BY <2>3, <2>4
  <1>6. CASE FoundUpdate
    <2>1. /\ Log /\ step = "seen" /\ step' = "next" /\ variable_name' = variable_name
          /\ variable_name \in Updates /\ visited' = Append(visited, variable_name)
      BY <1>6 DEF FoundUpdate
    <2>2. RoundLeft = 1 /\ RoundLeft' = 4
      BY <1>1, <2>1 DEF RoundLeft, Updates
    <2>3. Len(visited') = Len(visited) + 1
      BY <2>1 DEF EInv, EnumerationType
    <2>4. LogLeft \in 0..10
      BY LogLeftIs
    <2>. QED BY <1>1, <1>2, <2>1, <2>2, <2>3, <2>4
  <1>7. CASE SkipSetting
    <2>1. /\ step = "seen" /\ step' = "next" /\ variable_name = Debug_Log /\ UNCHANGED vars
          /\ variable_name' = variable_name /\ visited' = visited
      BY <1>7 DEF SkipSetting
    <2>2. RoundLeft = 3 /\ RoundLeft' = 2
      BY <2>1 DEF RoundLeft
    <2>. QED BY <1>1, <1>3, <2>1, <2>2
  <1>. QED BY <1>4, <1>5, <1>6, <1>7 DEF Enumerate

\* The enumeration of a verbose boot makes at most sixty steps for each update
\* and sixty more, though its messages keep writing one of the variables that
\* it enumerates: every step of the program leaves fewer to be made.
THEOREM EnumerationIsBounded ==
    VerboseSpec => /\ [](StepsLeft \in 0..60 * NumUpdates + 60)
                   /\ [][Program => StepsLeft' < StepsLeft]_allVars
  <1>1. ASSUME IInv, EInv PROVE StepsLeft \in 0..60 * NumUpdates + 60
    <2>1. Len(visited) \in 0..NumUpdates /\ LogLeft \in 0..10 /\ NumUpdates \in Nat
      BY <1>1, VisitedBound, LogLeftIs DEF IInv
    <2>2. RoundLeft \in 0..5
      BY <1>1 DEF EInv, EnumerationType, RoundLeft
    <2>. QED BY <2>1, <2>2 DEF StepsLeft
  <1>2. ASSUME IInv, EInv, IInv', EInv', Program PROVE StepsLeft' < StepsLeft
    <2>1. /\ Len(visited) \in Nat /\ LogLeft \in Nat /\ NumUpdates \in Nat
      BY <1>2, VisitedBound, LogLeftIs DEF IInv
    <2>a. Len(visited') \in Nat
      BY <1>2 DEF EInv, EnumerationType
    <2>2. RoundLeft \in Nat /\ RoundLeft' \in Nat
      BY <1>2 DEF EInv, EnumerationType, RoundLeft
    <2>3. CASE LogVersion \/ Enumerate
      <3>1. /\ 6 * (NumUpdates - Len(visited')) + RoundLeft'
                  < 6 * (NumUpdates - Len(visited)) + RoundLeft
            /\ LogLeft' <= LogLeft + 3
        BY <1>2, <2>3, RoundLeftFalls DEF IInv
      <3>2. LogLeft' \in Nat
        BY <1>2, LogLeftNext DEF IInv
      <3>. QED BY <2>1, <2>a, <2>2, <3>1, <3>2 DEF StepsLeft
    <2>4. CASE LogWritten \/ LogStep
      <3>1. DebugHook \/ FwupLog
        BY <2>4 DEF LogWritten, LogStep, FwupLog
      <3>2. LogLeft' < LogLeft
        BY <1>2, <3>1, LogLeftFalls
      <3>3. visited' = visited /\ RoundLeft' = RoundLeft
        BY <2>4 DEF LogWritten, LogStep, enumeration, RoundLeft
      <3>4. LogLeft' \in Nat
        BY <1>2, LogLeftNext DEF IInv
      <3>. QED BY <2>1, <2>2, <3>2, <3>3, <3>4 DEF StepsLeft
    <2>. QED BY <1>2, <2>3, <2>4 DEF Program
  <1>3. IInv /\ EInv /\ IInv' /\ EInv' /\ [VerboseNext]_allVars =>
          [Program => StepsLeft' < StepsLeft]_allVars
    BY <1>2
  <1>4. VerboseSpec => []IInv
    BY RefinesDebugLog, Invariant
  <1>5. IInv /\ EInv => StepsLeft \in 0..60 * NumUpdates + 60
    BY <1>1
  <1>. QED BY <1>3, <1>4, <1>5, EnumerationInvariant, PTL DEF VerboseSpec
==============================================================================

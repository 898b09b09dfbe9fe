------------------------ MODULE ServerProtocolProofs ------------------------
(***************************************************************************)
(* What clients may rely on, for all messages, stores and buffer sizes and *)
(* any number of sessions.                                                 *)
(***************************************************************************)
EXTENDS ServerProtocolProperties, SequenceFacts

-----------------------------------------------------------------------------
(* Text.                                                                   *)

(* fgets takes at least one byte, and leaves the rest.                     *)
LEMMA FgetsSplits ==
  ASSUME NEW B, NEW s \in Seq(B), s # <<>>
  PROVE  /\ FgetsLen(s) \in 1 .. Len(s)
         /\ Fgets(s) \in Seq(B) /\ AfterFgets(s) \in Seq(B)
         /\ Len(Fgets(s)) = FgetsLen(s)
         /\ Fgets(s) \o AfterFgets(s) = s
<1> DEFINE ends == {i \in DOMAIN s : s[i] = NL \/ i = LineSize \/ i = Len(s)}
           m == FgetsLen(s)
<1>1. DOMAIN s = 1 .. Len(s) /\ Len(s) \in Nat \ {0} /\ \A i \in 1 .. Len(s) : s[i] \in B
  BY LenProperties, EmptySeq, ElementOfSeq
<1>2. ends \subseteq Nat /\ Len(s) \in ends
  BY <1>1
<1>3. m = CHOOSE i \in ends : \A j \in ends : i <= j
  BY DEF FgetsLen
<1> HIDE DEF ends, m
<1>4. m \in ends
  BY <1>2, <1>3, LeastExists
<1>5. m \in 1 .. Len(s)
  BY <1>1, <1>4 DEF ends
<1>6. Fgets(s) = SubSeq(s, 1, m) /\ AfterFgets(s) = SubSeq(s, m + 1, Len(s))
  BY DEF Fgets, AfterFgets, m
<1>7. SubSeq(s, 1, m) \in Seq(B) /\ Len(SubSeq(s, 1, m)) = m
  <2>1. \A i \in 1 .. m : s[i] \in B
    BY <1>1, <1>5
  <2>2. QED
    BY <1>1, <1>5, <2>1, SubSeqProperties
<1>8. SubSeq(s, m + 1, Len(s)) \in Seq(B)
  <2>1. \A i \in m + 1 .. Len(s) : s[i] \in B
    BY <1>1, <1>5
  <2>2. QED
    BY <1>1, <1>5, <2>1, SubSeqProperties
<1>9. SubSeq(s, 1, m) \o SubSeq(s, m + 1, Len(s)) = s
  <2>1. 1 \in 1 .. Len(s) + 1 /\ m \in 1 - 1 .. Len(s) /\ Len(s) \in m .. Len(s)
    BY <1>1, <1>5
  <2>2. SubSeq(s, 1, m) \o SubSeq(s, m + 1, Len(s)) = SubSeq(s, 1, Len(s))
    BY <2>1, ConcatAdjacentSubSeq
  <2>3. QED
    BY <2>2, SubSeqFull
<1>10. QED
  BY <1>5, <1>6, <1>7, <1>8, <1>9 DEF m

(* A buffer without a zero byte is a string as it is.                      *)
LEMMA CStringOfText ==
  ASSUME NEW s, \A i \in DOMAIN s : s[i] # NUL
  PROVE  CString(s) = s
<1>1. {i \in DOMAIN s : s[i] = NUL} = {}
  OBVIOUS
<1>2. QED
  BY <1>1 DEF CString

(* A string has no zero byte.                                              *)
LEMMA CStringIsText ==
  ASSUME NEW s \in Seq(Bytes)
  PROVE  CString(s) \in Seq(Text)
<1> DEFINE ends == {i \in DOMAIN s : s[i] = NUL}
           m == CHOOSE i \in ends : \A j \in ends : i <= j
<1>1. DOMAIN s = 1 .. Len(s) /\ Len(s) \in Nat /\ \A i \in 1 .. Len(s) : s[i] \in Bytes
  BY LenProperties, ElementOfSeq
<1>2. CASE ends = {}
  <2>1. \A i \in 1 .. Len(s) : s[i] \in Text
    BY <1>1, <1>2 DEF Text
  <2>2. s \in Seq(Text)
    BY <1>1, <2>1
  <2>3. QED
    BY <1>2, <2>2 DEF CString
<1>3. CASE ends # {}
  <2>1. ends \subseteq Nat
    BY <1>1
  <2>2. CString(s) = SubSeq(s, 1, m - 1)
    BY <1>3 DEF CString
  <2> HIDE DEF ends
  <2>3. m \in ends /\ \A j \in ends : m <= j
    BY <1>3, <2>1, LeastExists
  <2> HIDE DEF m
  <2>4. m \in 1 .. Len(s) /\ \A j \in 1 .. m - 1 : j \notin ends
    BY <1>1, <2>3 DEF ends
  <2>5. \A j \in 1 .. m - 1 : s[j] \in Text
    BY <1>1, <2>4 DEF ends, Text
  <2>6. QED
    BY <1>1, <2>2, <2>4, <2>5, SubSeqProperties
<1>4. QED
  BY <1>2, <1>3
-----------------------------------------------------------------------------
(* The store.                                                              *)

\* f[k] is the concatenation of the first k of at least n sequences c.
Concats(f, n, c) == f[0] = <<>> /\ \A k \in 1 .. n : f[k] = f[k - 1] \o c[k]

(* Two concatenations of the same sequences agree.                         *)
LEMMA ConcatAgree ==
  ASSUME NEW n \in Nat, NEW f, NEW g, NEW c, Concats(f, n, c), Concats(g, n, c)
  PROVE  f[n] = g[n]
<1> USE DEF Concats
<1> DEFINE S == {k \in Nat : k <= n => f[k] = g[k]}
<1>1. 0 \in S
  OBVIOUS
<1>2. ASSUME NEW k \in Nat, k \in S PROVE k + 1 \in S
  <2> SUFFICES ASSUME k + 1 <= n PROVE f[k + 1] = g[k + 1]
    OBVIOUS
  <2>1. k + 1 \in 1 .. n /\ (k + 1) - 1 = k /\ f[k] = g[k]
    BY <1>2
  <2>2. f[k + 1] = f[k] \o c[k + 1] /\ g[k + 1] = g[k] \o c[k + 1]
    BY <2>1
  <2>3. QED
    BY <2>1, <2>2
<1>3. n \in S
  <2> HIDE DEF S
  <2> QED BY <1>1, <1>2, SetInduction
<1>4. QED
  BY <1>3

(* The recursion behind the concatenation of commands, with its sums.      *)
LEMMA Concatenates ==
  ASSUME NEW B, NEW s \in Seq(Seq(B))
  PROVE  \E f, g : /\ IsConcat(f, Len(s), s)
                   /\ AreParts(s, Len(s), g, B)
                   /\ f[0] = <<>> /\ \A k \in 1 .. Len(s) : f[k] = f[k - 1] \o s[k]
                   /\ \A j, k \in 0 .. Len(s) : j <= k => g[j] <= g[k]
                   /\ Concatenation(s) = f[Len(s)]
<1> DEFINE n == Len(s)
           f == CHOOSE h : IsConcat(h, n, s)
           d == [k \in Nat |-> Len(s[k + 1])]
<1>1. n \in Nat /\ \A k \in 1 .. n : s[k] \in Seq(B)
  BY LenProperties, ElementOfSeq
<1> HIDE DEF n
<1>2. IsConcat(f, n, s)
  BY <1>1, ConcatExists
<1>3. Concatenation(s) = f[n]
  BY DEF Concatenation, IsConcat, n
<1>4. PICK g : IsSums(g, n, d)
  BY <1>1, SumsExist
<1>5. \A k \in 0 .. n - 1 : d[k] = Len(s[k + 1]) /\ d[k] \in Nat
  <2>1. ASSUME NEW k \in 0 .. n - 1 PROVE s[k + 1] \in Seq(B) /\ k \in Nat
    BY <1>1
  <2>2. QED
    BY <2>1, LenProperties
<1> HIDE DEF f, d
<1>6. /\ g[0] = 0
      /\ \A k \in 0 .. n - 1 : g[k + 1] = g[k] + d[k]
      /\ \A k \in 0 .. n : g[k] \in Nat
      /\ \A j, k \in 0 .. n : j <= k => g[j] <= g[k]
  BY <1>1, <1>4, <1>5, SumsGrow
<1>7. AreParts(s, n, g, B)
  BY <1>1, <1>5, <1>6 DEF AreParts
<1>8. f[0] = <<>> /\ \A k \in 1 .. n : f[k] = f[k - 1] \o s[k]
  <2>1. \A k \in 1 .. n : k \in 0 .. n /\ k # 0
    BY <1>1
  <2>2. 0 \in 0 .. n
    BY <1>1
  <2>3. QED
    BY <1>2, <2>1, <2>2 DEF IsConcat
<1>9. QED
  BY <1>2, <1>3, <1>6, <1>7, <1>8 DEF n

(* Concatenations are sequences; the one of no commands is empty, and that *)
(* of one command is the command.                                          *)
LEMMA ConcatenationIs ==
  ASSUME NEW B, NEW s \in Seq(Seq(B))
  PROVE  /\ Concatenation(s) \in Seq(B)
         /\ s = <<>> => Concatenation(s) = <<>>
         /\ Len(s) = 1 => Concatenation(s) = s[1]
<1>1. PICK f, g : /\ IsConcat(f, Len(s), s) /\ AreParts(s, Len(s), g, B)
                  /\ f[0] = <<>> /\ \A k \in 1 .. Len(s) : f[k] = f[k - 1] \o s[k]
                  /\ Concatenation(s) = f[Len(s)]
  BY Concatenates
<1>2. Len(s) \in Nat /\ \A k \in 1 .. Len(s) : s[k] \in Seq(B)
  BY LenProperties, ElementOfSeq
<1>3. Concatenation(s) \in Seq(B)
  BY <1>1, <1>2, ConcatIs
<1>4. s = <<>> => Concatenation(s) = <<>>
  BY <1>1, EmptySeq
<1>5. ASSUME Len(s) = 1 PROVE Concatenation(s) = s[1]
  <2>1. 1 \in 1 .. Len(s) /\ 1 - 1 = 0
    BY <1>5
  <2>2. f[1] = <<>> \o s[1] /\ s[1] \in Seq(B)
    BY <1>1, <1>2, <2>1
  <2>3. QED
    BY <1>1, <1>5, <2>2, ConcatEmptySeq
<1>6. QED
  BY <1>3, <1>4, <1>5

(* A command more.                                                         *)
LEMMA ConcatenationAppend ==
  ASSUME NEW B, NEW s \in Seq(Seq(B)), NEW x \in Seq(B)
  PROVE  Concatenation(Append(s, x)) = Concatenation(s) \o x
<1> DEFINE n == Len(s)
           t == Append(s, x)
<1>1. n \in Nat /\ t \in Seq(Seq(B)) /\ Len(t) = n + 1
      /\ (\A k \in 1 .. n : t[k] = s[k]) /\ t[n + 1] = x
  BY AppendProperties, LenProperties
<1>2. PICK f, u : /\ f[0] = <<>> /\ \A k \in 1 .. n : f[k] = f[k - 1] \o s[k]
                  /\ Concatenation(s) = f[n]
  BY Concatenates
<1>3. PICK g, v : /\ g[0] = <<>> /\ \A k \in 1 .. Len(t) : g[k] = g[k - 1] \o t[k]
                  /\ Concatenation(t) = g[Len(t)]
  BY <1>1, Concatenates
<1> HIDE DEF n, t
<1>4. Concats(f, n, s) /\ Concats(g, n, s)
  <2>1. \A k \in 1 .. n : k \in 1 .. Len(t)
    BY <1>1
  <2>2. QED
    BY <1>1, <1>2, <1>3, <2>1 DEF Concats
<1>5. f[n] = g[n]
  BY <1>1, <1>4, ConcatAgree
<1>6. n + 1 \in 1 .. Len(t) /\ (n + 1) - 1 = n
  BY <1>1
<1>7. g[n + 1] = g[n] \o x
  BY <1>1, <1>3, <1>6
<1>8. QED
  BY <1>1, <1>2, <1>3, <1>5, <1>7 DEF t

(* A command less.                                                         *)
LEMMA ConcatenationTail ==
  ASSUME NEW B, NEW s \in Seq(Seq(B)), s # <<>>
  PROVE  Concatenation(s) = s[1] \o Concatenation(Tail(s))
<1> DEFINE n == Len(s) - 1
           t == Tail(s)
<1>1. /\ n \in Nat /\ Len(s) = n + 1 /\ t \in Seq(Seq(B)) /\ Len(t) = n
      /\ \A k \in 1 .. n : t[k] = s[k + 1] /\ t[k] \in Seq(B)
      /\ s[1] \in Seq(B)
  <2>1. Len(s) \in Nat \ {0} /\ t \in Seq(Seq(B)) /\ Len(t) = n
        /\ \A k \in 1 .. Len(t) : t[k] = s[k + 1]
    BY EmptySeq, HeadTailProperties
  <2>2. s[1] \in Seq(B) /\ \A k \in 1 .. Len(t) : t[k] \in Seq(B)
    BY <2>1, ElementOfSeq
  <2> HIDE DEF t
  <2>3. QED
    BY <2>1, <2>2
<1>2. PICK f, u : /\ f[0] = <<>> /\ \A k \in 1 .. Len(s) : f[k] = f[k - 1] \o s[k]
                  /\ Concatenation(s) = f[Len(s)]
  BY Concatenates
<1>3. PICK g, v : /\ g[0] = <<>> /\ \A k \in 1 .. Len(t) : g[k] = g[k - 1] \o t[k]
                  /\ Concatenation(t) = g[Len(t)]
  <2>1. t \in Seq(Seq(B))
    BY <1>1
  <2> HIDE DEF t
  <2>2. QED
    BY <2>1, Concatenates
<1> HIDE DEF n, t
<1> DEFINE P(k) == g[k] \in Seq(B) /\ f[k + 1] = s[1] \o g[k]
           S == {k \in Nat : k <= n => P(k)}
<1>4. 0 \in S
  <2>1. 1 \in 1 .. Len(s) /\ 1 - 1 = 0
    BY <1>1
  <2>2. f[1] = <<>> \o s[1]
    BY <1>2, <2>1
  <2>3. <<>> \o s[1] = s[1] /\ s[1] \o <<>> = s[1] /\ <<>> \in Seq(B)
    BY <1>1, ConcatEmptySeq
  <2>4. P(0)
    BY <1>3, <2>2, <2>3
  <2> HIDE DEF P
  <2>5. QED
    BY <2>4
<1>5. ASSUME NEW k \in Nat, k \in S PROVE k + 1 \in S
  <2> DEFINE a == s[1]
             b == g[k]
             c == t[k + 1]
  <2> SUFFICES ASSUME k + 1 <= n PROVE P(k + 1)
    <3> HIDE DEF P
    <3> QED OBVIOUS
  <2>1. k + 1 \in 1 .. n /\ (k + 1) + 1 \in 1 .. Len(s) /\ (k + 1) - 1 = k
        /\ ((k + 1) + 1) - 1 = k + 1
    BY <1>1
  <2>2. P(k)
    <3> HIDE DEF P
    <3> QED BY <1>1, <1>5
  <2>3. g[k + 1] = b \o c /\ c = s[(k + 1) + 1] /\ c \in Seq(B)
    BY <1>1, <1>3, <2>1
  <2>4. f[(k + 1) + 1] = f[k + 1] \o c
    BY <1>2, <2>1, <2>3
  <2>5. a \in Seq(B) /\ b \in Seq(B) /\ f[k + 1] = a \o b
    BY <1>1, <2>2
  <2> HIDE DEF a, b, c
  <2>6. b \o c \in Seq(B)
    BY <2>3, <2>5, ConcatProperties
  <2>7. (a \o b) \o c = a \o (b \o c)
    <3>1. a \in Seq(B) /\ b \in Seq(B) /\ c \in Seq(B)
      BY <2>3, <2>5
    <3>2. QED
      BY <3>1, ConcatAssociative, SMTT(30)
  <2>8. QED
    BY <2>3, <2>4, <2>5, <2>6, <2>7 DEF a
<1>6. P(n)
  <2>1. n \in S
    <3> HIDE DEF S
    <3> QED BY <1>1, <1>4, <1>5, SetInduction
  <2> HIDE DEF P
  <2>2. QED
    BY <2>1
<1>7. f[n + 1] = s[1] \o g[n] /\ Concatenation(s) = f[n + 1] /\ Concatenation(t) = g[n]
  BY <1>1, <1>2, <1>3, <1>6
<1>8. QED
  BY <1>7 DEF t

(* The recursion for the start of a command.                               *)
LEMMA StartUnfolds ==
  ASSUME NEW k
  PROVE  Device!Start(k) = (CHOOSE f : IsStarts(f, k, log))[k]
  BY DEF Device!Start, IsStarts

(* Where the bytes of the commands are in the store.                       *)
LEMMA StoredParts ==
  ASSUME NEW B, log \in Seq(Seq(B))
  PROVE  /\ Stored \in Seq(B)
         /\ \A k \in DOMAIN log :
              /\ log[k] \in Seq(B)
              /\ Device!Start(k) \in Nat
              /\ Device!Start(k) + Len(log[k]) <= Len(Stored)
              /\ \A x \in 1 .. Len(log[k]) : Stored[Device!Start(k) + x] = log[k][x]
         /\ log # <<>> => Len(Stored) = Device!Start(Len(log)) + Len(log[Len(log)])
<1> DEFINE n == Len(log)
<1>1. n \in Nat /\ DOMAIN log = 1 .. n /\ \A k \in 1 .. n : log[k] \in Seq(B) /\ Len(log[k]) \in Nat
  BY LenProperties, ElementOfSeq
<1>2. PICK f, g : /\ IsConcat(f, n, log) /\ AreParts(log, n, g, B)
                  /\ \A j, k \in 0 .. n : j <= k => g[j] <= g[k]
                  /\ Concatenation(log) = f[n]
  BY Concatenates
<1> HIDE DEF n
<1>3. /\ g[0] = 0 /\ \A k \in 0 .. n : g[k] \in Nat
      /\ \A k \in 0 .. n - 1 : g[k + 1] = g[k] + Len(log[k + 1])
  BY <1>2 DEF AreParts
<1>4. /\ Stored \in Seq(B) /\ Len(Stored) = g[n]
      /\ \A j \in 0 .. n - 1 : \A x \in 1 .. Len(log[j + 1]) : Stored[g[j] + x] = log[j + 1][x]
  BY <1>1, <1>2, ConcatIs DEF Stored
<1>5. ASSUME NEW k \in 1 .. n PROVE Device!Start(k) = g[k - 1]
  <2>1. k \in Nat \ {0} /\ \A j \in Nat : j + 1 <= k - 1 => j \in 0 .. n - 1
    BY <1>1
  <2>2. \A j \in Nat : j + 1 <= k - 1 => g[j + 1] = g[j] + Len(log[j + 1])
    BY <1>3, <2>1
  <2>3. (CHOOSE h : IsStarts(h, k, log))[k] = g[k - 1]
    BY <1>3, <2>1, <2>2, StartsAreSums
  <2>4. QED
    BY <2>3, StartUnfolds
<1>6. ASSUME NEW k \in 1 .. n
      PROVE  /\ Device!Start(k) \in Nat
             /\ Device!Start(k) + Len(log[k]) = g[k] /\ g[k] <= Len(Stored)
             /\ \A x \in 1 .. Len(log[k]) : Stored[Device!Start(k) + x] = log[k][x]
  <2> DEFINE j == k - 1
  <2>1. j \in 0 .. n - 1 /\ j \in 0 .. n /\ k = j + 1 /\ k \in 0 .. n /\ n \in 0 .. n /\ k <= n
    BY <1>1
  <2>2. Device!Start(k) = g[j]
    BY <1>5
  <2> HIDE DEF j
  <2>3. g[k] = g[j] + Len(log[k]) /\ g[j] \in Nat /\ g[k] <= g[n]
    BY <1>2, <1>3, <2>1
  <2>4. \A x \in 1 .. Len(log[k]) : Stored[g[j] + x] = log[k][x]
    BY <1>4, <2>1
  <2>5. QED
    BY <1>4, <2>2, <2>3, <2>4
<1>7. ASSUME log # <<>> PROVE Len(Stored) = Device!Start(n) + Len(log[n])
  <2>1. n # 0
    BY <1>7, EmptySeq DEF n
  <2>2. n \in 1 .. n
    BY <1>1, <2>1
  <2>3. QED
    BY <1>4, <1>6, <2>2
<1>8. QED
  BY <1>1, <1>4, <1>6, <1>7 DEF n

(* A part of the store.                                                    *)
LEMMA StoredPart ==
  ASSUME NEW B, log \in Seq(Seq(B)), NEW m \in Nat, NEW n \in Nat, m + n <= Len(Stored)
  PROVE  /\ SubSeq(Stored, m + 1, m + n) \in Seq(B) /\ Len(SubSeq(Stored, m + 1, m + n)) = n
         /\ \A i \in 1 .. n : SubSeq(Stored, m + 1, m + n)[i] = Stored[m + i]
<1> DEFINE s == Stored
<1>1. s \in Seq(B)
  BY StoredParts
<1>2. m + n <= Len(s)
  OBVIOUS
<1> HIDE DEF s
<1>3. Len(s) \in Nat /\ \A i \in 1 .. Len(s) : s[i] \in B
  BY <1>1, LenProperties, ElementOfSeq
<1>4. \A i \in m + 1 .. m + n : i \in 1 .. Len(s)
  BY <1>2, <1>3
<1>5. \A i \in m + 1 .. m + n : s[i] \in B
  BY <1>3, <1>4
<1>6. /\ SubSeq(s, m + 1, m + n) \in Seq(B) /\ Len(SubSeq(s, m + 1, m + n)) = n
      /\ \A i \in 1 .. n : SubSeq(s, m + 1, m + n)[i] = s[m + i]
  BY <1>5, PartOfSeq
<1>7. QED
  BY <1>6 DEF s

(* A read returns what is stored from the position on, and nothing only at *)
(* the end.                                                                *)
LEMMA ReadIs ==
  ASSUME NEW B, log \in Seq(Seq(B)), f_pos \in [{Server} -> Int],
         got \in [{Server} -> Seq(B)], Device!Read(Server, StreamSize)
  PROVE  LET pos   == f_pos[Server]
             bytes == got'[Server]
         IN  /\ UNCHANGED <<log, partial>>
             /\ bytes \in Seq(B) /\ got' \in [{Server} -> Seq(B)]
             /\ f_pos' \in [{Server} -> Int] /\ f_pos'[Server] = pos + Len(bytes)
             /\ bytes = <<>> /\ pos >= 0 => pos >= Len(Stored)
             /\ bytes # <<>> => /\ pos >= 0 /\ pos + Len(bytes) <= Len(Stored)
                                /\ bytes = SubSeq(Stored, pos + 1, pos + Len(bytes))
<1> DEFINE pos   == f_pos[Server]
           bytes == got'[Server]
           size  == Len(Stored)
<1>1. pos \in Int /\ UNCHANGED <<log, partial>> /\ StreamSize \in Nat \ {0}
  BY ProtocolAssumption DEF Device!Read
<1>2. /\ Stored \in Seq(B) /\ size \in Nat
      /\ \A i \in 1 .. size : Stored[i] \in B
  BY StoredParts, LenProperties, ElementOfSeq
<1>3. ASSUME NEW k \in DOMAIN log
      PROVE  /\ log[k] \in Seq(B) /\ Len(log[k]) \in Nat
             /\ Device!Start(k) \in Nat /\ Device!Start(k) + Len(log[k]) <= size
             /\ \A x \in 1 .. Len(log[k]) : Stored[Device!Start(k) + x] = log[k][x]
  BY StoredParts, LenProperties
<1> HIDE DEF size
<1>0. ASSUME NEW m \in Nat, NEW n \in Nat, m + n <= size
      PROVE  /\ SubSeq(Stored, m + 1, m + n) \in Seq(B) /\ Len(SubSeq(Stored, m + 1, m + n)) = n
             /\ \A i \in 1 .. n : SubSeq(Stored, m + 1, m + n)[i] = Stored[m + i]
  BY <1>0, StoredPart DEF size
<1>4. ASSUME NEW k \in DOMAIN log, NEW from, NEW n,
             from = pos - Device!Start(k),
             n = (IF StreamSize < Len(log[k]) - from THEN StreamSize ELSE Len(log[k]) - from),
             from \in 0 .. Len(log[k]) - 1,
             got' = [got EXCEPT ![Server] = SubSeq(log[k], from + 1, from + n)],
             f_pos' = [f_pos EXCEPT ![Server] = @ + n]
      PROVE  /\ bytes \in Seq(B) /\ got' \in [{Server} -> Seq(B)] /\ bytes # <<>>
             /\ f_pos' \in [{Server} -> Int] /\ f_pos'[Server] = pos + Len(bytes)
             /\ pos >= 0 /\ pos + Len(bytes) <= size
             /\ bytes = SubSeq(Stored, pos + 1, pos + Len(bytes))
  <2> DEFINE start == Device!Start(k)
             c == log[k]
             l == Len(c)
  <2>1. c \in Seq(B) /\ l \in Nat /\ start \in Nat /\ start + l <= size
    BY <1>3
  <2>2. \A x \in 1 .. l : Stored[start + x] = c[x] /\ c[x] \in B
    BY <1>3, <2>1, ElementOfSeq
  <2>3. from \in Nat /\ n \in Nat /\ n >= 1 /\ from + n <= l /\ pos = start + from
        /\ pos \in Nat /\ pos + n <= size
    <3> HIDE DEF pos
    <3>1. from \in 0 .. l - 1 /\ from = pos - start
          /\ n = (IF StreamSize < l - from THEN StreamSize ELSE l - from)
      BY <1>4
    <3> HIDE DEF l, start
    <3>2. QED
      BY <1>1, <1>2, <2>1, <3>1
  <2>4. bytes = SubSeq(c, from + 1, from + n)
    BY <1>4
  <2>5. f_pos'[Server] = pos + n /\ f_pos' \in [{Server} -> Int]
    <3>1. pos + n \in Int
      BY <2>3
    <3>2. QED
      BY <1>4, <3>1
  <2> HIDE DEF pos, bytes, start, c, l
  <2>6. /\ bytes \in Seq(B) /\ Len(bytes) = n
        /\ \A i \in 1 .. n : bytes[i] = c[from + i]
    <3>1. \A i \in from + 1 .. from + n : c[i] \in B
      <4>1. ASSUME NEW i \in from + 1 .. from + n PROVE i \in 1 .. l
        BY <2>1, <2>3
      <4>2. QED
        BY <2>2, <4>1
    <3>2. from \in Nat /\ n \in Nat
      BY <2>3
    <3> DEFINE x == SubSeq(c, from + 1, from + n)
    <3>3. x \in Seq(B) /\ Len(x) = n /\ \A i \in 1 .. n : x[i] = c[from + i]
      BY <3>1, <3>2, PartOfSeq
    <3> HIDE DEF x
    <3>4. bytes = x
      BY <2>4 DEF x
    <3>5. QED
      BY <3>3, <3>4
  <2> DEFINE t == SubSeq(Stored, pos + 1, pos + n)
  <2>7. /\ t \in Seq(B) /\ Len(t) = n
        /\ \A i \in 1 .. n : t[i] = Stored[pos + i]
    <3>1. pos \in Nat /\ n \in Nat /\ pos + n <= size
      BY <2>3
    <3>2. QED
      BY <1>0, <3>1
  <2>8. \A i \in 1 .. n : bytes[i] = t[i]
    <3>1. ASSUME NEW i \in 1 .. n PROVE bytes[i] = Stored[pos + i]
      <4>1. from + i \in 1 .. l /\ start + (from + i) = pos + i
        BY <2>1, <2>3
      <4>2. QED
        BY <2>2, <2>6, <4>1
    <3> HIDE DEF t
    <3>2. QED
      BY <2>7, <3>1
  <2> HIDE DEF t
  <2>9. bytes = t
    BY <2>6, <2>7, <2>8, SeqEqual
  <2>10. got' \in [{Server} -> Seq(B)]
    <3>1. got' = [got EXCEPT ![Server] = bytes]
      BY <1>4, <2>4 DEF c
    <3>2. QED
      BY <2>6, <3>1
  <2>11. bytes # <<>>
    BY <2>3, <2>6, EmptySeq
  <2>12. bytes = SubSeq(Stored, pos + 1, pos + Len(bytes))
    BY <2>6, <2>9 DEF t
  <2>13. QED
    BY <2>3, <2>5, <2>6, <2>10, <2>11, <2>12
<1>5. ASSUME \A k \in DOMAIN log : pos >= Device!Start(k) + Len(log[k]),
             got' = [got EXCEPT ![Server] = <<>>],
             UNCHANGED f_pos
      PROVE  /\ bytes = <<>> /\ got' \in [{Server} -> Seq(B)]
             /\ bytes \in Seq(B) /\ f_pos' \in [{Server} -> Int]
             /\ f_pos'[Server] = pos + Len(bytes) /\ (pos >= 0 => pos >= size)
  <2>1. bytes = <<>> /\ got' \in [{Server} -> Seq(B)] /\ bytes \in Seq(B)
    BY <1>5
  <2>2. ASSUME pos >= 0 PROVE pos >= size
    <3>1. CASE log = <<>>
      <4>1. Stored = <<>>
        BY <3>1, ConcatenationIs DEF Stored
      <4>2. size = 0
        BY <4>1 DEF size
      <4>3. QED
        BY <2>2, <4>2
    <3>2. CASE log # <<>>
      <4>1. Len(log) \in DOMAIN log
        BY <3>2, LenProperties, EmptySeq
      <4>2. size = Device!Start(Len(log)) + Len(log[Len(log)])
        BY <3>2, StoredParts DEF size
      <4>3. QED
        BY <1>5, <4>1, <4>2
    <3>3. QED
      BY <3>1, <3>2
  <2>3. QED
    BY <1>1, <1>5, <2>1, <2>2
<1>6. QED
  BY <1>1, <1>4, <1>5 DEF Device!Read, size
-----------------------------------------------------------------------------
(* The inductive invariant.                                                *)

\* The store and the stream hold strings.  That positions are not negative is
\* shown below.
StoreTypes ==
  /\ device \in BOOLEAN
  /\ log \in Seq(Seq(Text)) /\ partial \in Seq(Text)
  /\ f_pos \in [{Server} -> Int] /\ got \in [{Server} -> Seq(Text)]
  /\ stream \in [unread: Seq(Text), offset: Int, eof: BOOLEAN]
  /\ written \in Seq(Text)

SessionTypes ==
  /\ pc \in Labels
  /\ input \in Seq(Bytes) /\ sent \in Seq(Bytes)
  /\ reply \in Seq(Text) /\ own \in Seq(Text)
  /\ seek = NoSeek \/ seek \in Nat \X Nat
  /\ ok \in BOOLEAN
  /\ sessions \in 0 .. MaxSessions /\ ticks \in 0 .. MaxTicks /\ aborts \in 0 .. MaxAborts

\* The regular file: the stream has read ahead only what is in the file.
FileShape ==
  ~device =>
    /\ Len(log) <= 1 /\ partial = <<>>
    /\ Len(stream.unread) <= f_pos[Server] /\ f_pos[Server] <= Len(Content)

\* The first byte of the answer.
First == IF seek = NoSeek THEN 0 ELSE Device!Start(seek[1] + 1) + seek[2]

\* What the session has done when it is at pc.
Phases ==
  /\ pc \in {"recv", "rewind"} => seek = NoSeek
  /\ pc \in {"recv", "rewind", "fseek"} => reply = <<>>
  /\ pc \in {"recv", "rewind", "fseek", "reply"} => ~ok
  /\ pc = "fseek" => device /\ seek # NoSeek /\ f_pos[Server] = First
  /\ pc \in {"fseek", "reply", "close"} /\ seek # NoSeek =>
       seek[1] < Len(log) /\ seek[2] < Len(log[seek[1] + 1])

\* A stream that the next session can use.
AtRest ==
  /\ stream.unread = <<>> /\ stream.offset = Unknown
  /\ device \/ f_pos[Server] = Len(Content)

RestInv ==
  aborts = 0 =>
    /\ pc \in {"idle", "recv", "rewind", "fseek", "close"} => AtRest
    /\ pc = "reply" /\ stream.eof =>
         stream.offset = Unknown /\ (device \/ f_pos[Server] = Len(Content))

\* What was sent and what was read ahead is the store from First to the
\* position.
ReplyInv ==
  seek = NoSeek \/ aborts = 0 =>
    /\ pc = "reply" =>
         /\ First <= f_pos[Server] /\ f_pos[Server] <= Len(Stored)
         /\ reply \o stream.unread = SubSeq(Stored, First + 1, f_pos[Server])
         /\ stream.eof => f_pos[Server] = Len(Stored)
    /\ Answered => reply = SubSeq(Stored, First + 1, Len(Stored))

StreamInv == StoreTypes /\ SessionTypes /\ FileShape /\ Phases /\ RestInv /\ ReplyInv

\* The start of command k of L.
StartIn(L, k) == (CHOOSE f : IsStarts(f, k, L))[k]

(* The first byte in these terms.                                          *)
LEMMA FirstIs ==
  First = IF seek = NoSeek THEN 0 ELSE StartIn(log, seek[1] + 1) + seek[2]
  BY DEF First, StartIn, IsStarts, Device!Start

(* The same of the next state.                                             *)
LEMMA NextFirstIs ==
  First' = IF seek' = NoSeek THEN 0 ELSE StartIn(log', seek'[1] + 1) + seek'[2]
  BY DEF First, StartIn, IsStarts, Device!Start, NoSeek

(* The operators of the store see the log only.                            *)
LEMMA KeptStore ==
  ASSUME UNCHANGED log
  PROVE  /\ Stored' = Stored /\ Content' = Content
         /\ seek' = seek => First' = First
<1>1. Stored' = Stored /\ Content' = Content
  BY DEF Stored, Content
<1>2. seek' = seek => First' = First
  BY FirstIs, NextFirstIs
<1>3. QED
  BY <1>1, <1>2

(* The bounds are numbers.                                                 *)
LEMMA Bounds == MaxSessions \in Nat /\ MaxTicks \in Nat /\ MaxAborts \in Nat
  BY ProtocolAssumption

(* The server starts with a fresh stream.                                  *)
LEMMA InitStream == Init => StreamInv
<1> SUFFICES ASSUME Init PROVE StreamInv
  OBVIOUS
<1> USE DEF Init
<1>1. log \in Seq(Seq(Text)) /\ device \in BOOLEAN
  <2>1. CASE device
    BY <2>1, TextAssumption, ProtocolAssumption
  <2>2. CASE ~device
    BY <2>2, ProtocolAssumption
  <2>3. QED
    BY <2>1, <2>2
<1>2. Concatenation(log) \in Seq(Text)
  BY <1>1, ConcatenationIs
<1>3. StoreTypes
  BY <1>1, <1>2 DEF StoreTypes, Unknown
<1>4. SessionTypes
  <2>1. pc \in Labels /\ ok \in BOOLEAN
    BY DEF Labels
  <2>2. <<>> \in Seq(Bytes) /\ <<>> \in Seq(Text)
    OBVIOUS
  <2>3. 0 \in 0 .. MaxSessions /\ 0 \in 0 .. MaxTicks /\ 0 \in 0 .. MaxAborts
    BY Bounds
  <2>4. QED
    BY <2>1, <2>2, <2>3 DEF SessionTypes
<1>5. FileShape
  BY DEF FileShape, Content
<1>6. Phases
  BY DEF Phases
<1>7. RestInv
  BY DEF RestInv, AtRest, Content
<1>8. ReplyInv
  BY DEF ReplyInv, Answered
<1>9. QED
  BY <1>3, <1>4, <1>5, <1>6, <1>7, <1>8 DEF StreamInv

(* Steps of a session that touch neither the store nor the stream.         *)
LEMMA QuietSteps ==
  ASSUME StreamInv, UNCHANGED device,
         (\E m \in Messages : begin(m)) \/ recv_seek_fails \/ recv_fails \/ sigpipe
         \/ reply_done \/ close \/ Over
  PROVE  StreamInv'
<1> USE DEF StreamInv
<1>1. UNCHANGED <<device, store, stream, written>>
  BY DEF begin, recv_seek_fails, recv_fails, sigpipe, reply_done, close, Over, vars
<1>2. UNCHANGED <<log, partial, f_pos, got>>
  BY <1>1 DEF store
<1>3. Stored' = Stored /\ Content' = Content /\ (seek' = seek => First' = First)
  BY <1>2, KeptStore
<1>4. StoreTypes'
  BY <1>1, <1>2 DEF StoreTypes
<1>5. FileShape'
  BY <1>1, <1>2, <1>3 DEF FileShape
<1>6. AtRest' <=> AtRest
  BY <1>1, <1>2, <1>3 DEF AtRest
<1> USE DEF session, counts
<1>7. CASE \E m \in Messages : begin(m)
  <2>1. PICK m \in Messages : begin(m)
    BY <1>7
  <2>2. SessionTypes'
    <3>1. m \in Seq(Bytes)
      BY <2>1, TextAssumption
    <3>2. pc' \in Labels /\ ok' \in BOOLEAN
      BY <2>1 DEF begin, Labels
    <3>3. input' \in Seq(Bytes) /\ sent' \in Seq(Bytes)
      BY <2>1, <3>1 DEF begin
    <3>4. reply' \in Seq(Text) /\ own' \in Seq(Text) /\ seek' = NoSeek'
      BY <2>1 DEF begin, NoSeek
    <3>5. sessions' \in 0 .. MaxSessions
      BY <2>1, Bounds DEF begin, SessionTypes
    <3>6. QED
      BY <2>1, <3>2, <3>3, <3>4, <3>5 DEF begin, SessionTypes
  <2>3. Phases'
    BY <2>1 DEF begin, Phases
  <2>4. RestInv'
    BY <1>6, <2>1 DEF begin, RestInv
  <2>5. ReplyInv'
    BY <2>1 DEF begin, ReplyInv, Answered
  <2>6. QED
    BY <1>4, <1>5, <2>2, <2>3, <2>4, <2>5
<1>8. CASE recv_seek_fails \/ recv_fails
  <2>1. SessionTypes'
    <3>1. ASSUME recv_seek_fails PROVE input' \in Seq(Bytes)
      <4>1. input # <<>>
        BY <3>1 DEF recv_seek_fails, IsSeek, Fgets, FgetsLen
      <4>2. QED
        BY <3>1, <4>1, FgetsSplits DEF recv_seek_fails, SessionTypes
    <3>2. ASSUME recv_fails PROVE input' \in Seq(Bytes)
      BY <3>2 DEF recv_fails
    <3>3. QED
      BY <1>8, <3>1, <3>2 DEF recv_seek_fails, recv_fails, SessionTypes, Labels
  <2>2. Phases'
    BY <1>8 DEF recv_seek_fails, recv_fails, Phases
  <2>3. RestInv'
    BY <1>6, <1>8 DEF recv_seek_fails, recv_fails, RestInv
  <2>4. ReplyInv'
    BY <1>8 DEF recv_seek_fails, recv_fails, ReplyInv, Answered, Phases
  <2>5. QED
    BY <1>4, <1>5, <2>1, <2>2, <2>3, <2>4
<1>9. CASE sigpipe \/ close
  <2>1. SessionTypes'
    BY <1>9 DEF sigpipe, close, SessionTypes, Labels
  <2>2. Phases'
    BY <1>9 DEF sigpipe, close, Phases
  <2>3. RestInv'
    BY <1>6, <1>9 DEF sigpipe, close, RestInv
  <2>4. ReplyInv'
    BY <1>9 DEF sigpipe, close, ReplyInv, Answered
  <2>5. QED
    BY <1>4, <1>5, <2>1, <2>2, <2>3, <2>4
<1>10. CASE reply_done
  <2>1. SessionTypes'
    BY <1>10 DEF reply_done, SessionTypes, Labels
  <2>2. Phases'
    BY <1>2, <1>10 DEF reply_done, Phases
  <2>3. RestInv'
    BY <1>6, <1>10 DEF reply_done, RestInv, AtRest
  <2>4. ReplyInv'
    <3>1. /\ pc = "reply" /\ stream.eof /\ stream.unread = <<>> /\ pc' = "close"
          /\ UNCHANGED <<seek, reply, aborts>>
      BY <1>10 DEF reply_done
    <3>2. reply \o <<>> = reply
      BY ConcatEmptySeq DEF SessionTypes
    <3>3. QED
      BY <1>2, <1>3, <3>1, <3>2 DEF ReplyInv
  <2>5. QED
    BY <1>4, <1>5, <2>1, <2>2, <2>3, <2>4
<1>11. CASE Over
  <2>1. UNCHANGED <<pc, session, counts>>
    BY <1>11 DEF Over, vars
  <2>2. SessionTypes'
    BY <2>1 DEF SessionTypes
  <2>3. Phases'
    BY <1>2, <1>3, <2>1 DEF Phases
  <2>4. RestInv'
    BY <1>1, <1>2, <1>3, <1>6, <2>1 DEF RestInv
  <2>5. ReplyInv'
    BY <1>1, <1>2, <1>3, <2>1 DEF ReplyInv, Answered
  <2>6. QED
    BY <1>4, <1>5, <2>2, <2>3, <2>4, <2>5
<1>12. QED
  BY <1>7, <1>8, <1>9, <1>10, <1>11

(* A write to the regular file puts the bytes where the stream has read to *)
(* and moves the position behind them.                                     *)
LEMMA FlushFile ==
  ASSUME StoreTypes, FileShape, ~device, NEW bytes \in Seq(Text), bytes # <<>>,
         FwriteFlush(bytes)
  PROVE  /\ partial' = <<>> /\ got' = got
         /\ f_pos' \in [{Server} -> Int]
         /\ \E c \in Seq(Text) :
              /\ log' = <<c>> /\ f_pos'[Server] \in 0 .. Len(c)
              /\ f_pos[Server] - Len(stream.unread) = Len(Content) =>
                   c = Content \o bytes /\ f_pos'[Server] = Len(c)
<1> DEFINE d == Content
           pos == f_pos[Server] - Len(stream.unread)
           a == SubSeq(d, 1, pos)
           z == SubSeq(d, pos + Len(bytes) + 1, Len(d))
           c == a \o bytes \o z
<1>1. /\ partial = <<>> /\ UNCHANGED <<partial, got>>
      /\ log' = <<c>> /\ f_pos' = [f_pos EXCEPT ![Server] = pos + Len(bytes)]
  BY DEF FwriteFlush, FileWrite, FileShape
<1>2. d \in Seq(Text) /\ Len(d) \in Nat /\ Len(bytes) \in Nat /\ Len(stream.unread) \in Nat
      /\ f_pos[Server] \in Int
  <2>1. d \in Seq(Text)
    <3>1. CASE log = <<>>
      BY <3>1 DEF Content
    <3>2. CASE log # <<>>
      <4>1. 1 \in 1 .. Len(log) /\ log \in Seq(Seq(Text))
        BY <3>2, EmptySeq DEF StoreTypes
      <4>2. QED
        BY <3>2, <4>1, ElementOfSeq DEF Content
    <3>3. QED
      BY <3>1, <3>2
  <2>2. QED
    BY <2>1, LenProperties DEF StoreTypes
<1>3. pos \in 0 .. Len(d)
  <2>1. Len(stream.unread) <= f_pos[Server] /\ f_pos[Server] <= Len(d)
    BY DEF FileShape
  <2> HIDE DEF d
  <2>2. QED
    BY <1>2, <2>1
<1> HIDE DEF d, pos
<1>4. \A i \in 1 .. Len(d) : d[i] \in Text
  BY <1>2, ElementOfSeq
<1>5. a \in Seq(Text) /\ Len(a) = pos
  <2>1. \A i \in 1 .. pos : d[i] \in Text
    BY <1>2, <1>3, <1>4
  <2>2. QED
    BY <1>2, <1>3, <2>1, SubSeqProperties
<1>6. z \in Seq(Text) /\ Len(z) \in Nat
  <2>1. \A i \in pos + Len(bytes) + 1 .. Len(d) : d[i] \in Text
    BY <1>2, <1>3, <1>4
  <2>2. pos + Len(bytes) + 1 \in Int /\ Len(d) \in Int
    BY <1>2, <1>3
  <2>3. z \in Seq(Text)
    BY <2>1, <2>2, SubSeqProperties
  <2>4. QED
    BY <2>3, LenProperties
<1>7. pos = Len(d) => a = d /\ z = <<>>
  <2>1. ASSUME pos = Len(d) PROVE a = d /\ z = <<>>
    <3>1. a = d
      BY <1>2, <2>1, SubSeqFull
    <3>2. Len(d) < pos + Len(bytes) + 1 /\ pos + Len(bytes) + 1 \in Int /\ Len(d) \in Int
      BY <1>2, <2>1
    <3>3. z = <<>>
      BY <3>2, SubSeqEmpty
    <3>4. QED
      BY <3>1, <3>3
  <2>2. QED
    BY <2>1
<1> HIDE DEF a, z
<1>8. a \o bytes \in Seq(Text) /\ Len(a \o bytes) = pos + Len(bytes)
  BY <1>5, ConcatProperties
<1>9. c \in Seq(Text) /\ Len(c) = pos + Len(bytes) + Len(z)
  <2> DEFINE b == a \o bytes
  <2>1. b \in Seq(Text) /\ Len(b) = pos + Len(bytes)
    BY <1>8
  <2> HIDE DEF b
  <2>2. b \o z \in Seq(Text) /\ Len(b \o z) = Len(b) + Len(z)
    BY <1>6, <2>1, ConcatProperties
  <2>3. QED
    BY <2>1, <2>2 DEF b
<1>10. pos = Len(d) => c = d \o bytes
  <2>1. ASSUME pos = Len(d) PROVE c = d \o bytes
    <3>1. c = (d \o bytes) \o <<>>
      BY <1>7, <2>1
    <3>2. d \o bytes \in Seq(Text)
      BY <1>2, ConcatProperties
    <3> HIDE DEF c
    <3>3. QED
      BY <3>1, <3>2, ConcatEmptySeq
  <2>2. QED
    BY <2>1
<1> HIDE DEF c
<1>11. f_pos'[Server] = pos + Len(bytes) /\ f_pos' \in [{Server} -> Int]
  <2>1. pos + Len(bytes) \in Int
    BY <1>2, <1>3
  <2>2. QED
    BY <1>1, <2>1 DEF StoreTypes
<1>12. f_pos'[Server] \in 0 .. Len(c)
  BY <1>2, <1>3, <1>6, <1>9, <1>11
<1>13. pos = Len(d) => c = d \o bytes /\ f_pos'[Server] = Len(c)
  <2>1. Len(d \o bytes) = Len(d) + Len(bytes)
    BY <1>2, ConcatProperties
  <2>2. QED
    BY <1>10, <1>11, <2>1
<1>14. QED
  BY <1>1, <1>9, <1>11, <1>12, <1>13 DEF d, pos

(* A write to the device extends the pending command or completes it, and  *)
(* leaves the position alone.                                              *)
LEMMA FlushDevice ==
  ASSUME StoreTypes, device, NEW bytes \in Seq(Text), bytes # <<>>, FwriteFlush(bytes)
  PROVE  /\ UNCHANGED <<f_pos, got>>
         /\ partial \o bytes \in Seq(Text)
         /\ Append(log, partial \o bytes) \in Seq(Seq(Text))
         /\ bytes[Len(bytes)] = NL =>
              log' = Device!Recent(Append(log, partial \o bytes)) /\ partial' = <<>>
         /\ bytes[Len(bytes)] # NL => log' = log /\ partial' = partial \o bytes
         /\ log' \in Seq(Seq(Text)) /\ partial' \in Seq(Text)
<1>1. Device!Write(bytes)
  BY DEF FwriteFlush
<1> DEFINE p == partial \o bytes
           t == Append(log, p)
<1>2. p \in Seq(Text) /\ log \in Seq(Seq(Text))
  BY ConcatProperties DEF StoreTypes
<1>3. UNCHANGED <<f_pos, got>>
      /\ (bytes[Len(bytes)] = NL => log' = Device!Recent(t) /\ partial' = <<>>)
      /\ (bytes[Len(bytes)] # NL => log' = log /\ partial' = p)
  BY <1>1 DEF Device!Write
<1> HIDE DEF p
<1>4. t \in Seq(Seq(Text)) /\ t # <<>>
  BY <1>2, AppendProperties
<1> HIDE DEF t
<1>5. Device!Recent(t) \in Seq(Seq(Text))
  BY <1>4, HeadTailProperties DEF Device!Recent
<1>6. log' \in Seq(Seq(Text)) /\ partial' \in Seq(Text)
  <2>1. CASE bytes[Len(bytes)] = NL
    <3>1. <<>> \in Seq(Text)
      OBVIOUS
    <3>2. QED
      BY <1>3, <1>5, <2>1, <3>1
  <2>2. CASE bytes[Len(bytes)] # NL
    BY <1>2, <1>3, <2>2
  <2>3. QED
    BY <2>1, <2>2
<1>7. QED
  BY <1>2, <1>3, <1>4, <1>6 DEF t, p

(* The content of the regular file.                                        *)
LEMMA FileStored ==
  ASSUME StoreTypes, FileShape, ~device
  PROVE  Stored = Content
<1>1. CASE log = <<>>
  BY <1>1, ConcatenationIs DEF StoreTypes, Stored, Content
<1>2. CASE log # <<>>
  <2>1. Len(log) = 1
    <3>1. log \in Seq(Seq(Text)) /\ Len(log) <= 1
      BY DEF StoreTypes, FileShape
    <3> DEFINE n == Len(log)
    <3>2. n \in Nat \ {0} /\ n <= 1
      BY <1>2, <3>1, EmptySeq
    <3> HIDE DEF n
    <3>3. n = 1
      BY <3>2
    <3>4. QED
      BY <3>3 DEF n
  <2>2. QED
    BY <1>2, <2>1, ConcatenationIs DEF StoreTypes, Stored, Content
<1>3. QED
  BY <1>1, <1>2

(* A write keeps the stream and the store in step.                         *)
LEMMA FlushKeeps ==
  ASSUME StoreTypes, FileShape, UNCHANGED device, NEW bytes \in Seq(Text), FwriteFlush(bytes)
  PROVE  StoreTypes' /\ FileShape' /\ (AtRest => AtRest')
<1>1. written' \in Seq(Text)
  <2>1. written' = written \o bytes /\ written \in Seq(Text)
    BY DEF FwriteFlush, StoreTypes
  <2>2. QED
    BY <2>1, ConcatProperties
<1>2. /\ stream' \in [unread: Seq(Text), offset: Int, eof: BOOLEAN]
      /\ stream'.unread = <<>> /\ stream'.offset = Unknown /\ Len(stream'.unread) = 0
  <2>1. stream \in [unread: Seq(Text), offset: Int, eof: BOOLEAN]
    BY DEF StoreTypes
  <2>2. stream' = [unread |-> <<>>, offset |-> Unknown, eof |-> stream.eof]
    BY <2>1 DEF FwriteFlush
  <2>3. QED
    BY <2>1, <2>2 DEF Unknown
<1>3. CASE bytes = <<>>
  <2>1. UNCHANGED <<log, partial, f_pos, got>>
    BY <1>3 DEF FwriteFlush, store
  <2>2. Content' = Content
    BY <2>1, KeptStore
  <2>3. StoreTypes'
    BY <1>1, <1>2, <2>1 DEF StoreTypes
  <2>4. FileShape'
    <3>1. Len(stream.unread) \in Nat /\ f_pos[Server] \in Int
      BY LenProperties DEF StoreTypes
    <3>2. QED
      BY <1>2, <2>1, <2>2, <3>1 DEF FileShape
  <2>5. QED
    BY <1>2, <2>1, <2>2, <2>3, <2>4 DEF AtRest
<1>4. CASE bytes # <<>> /\ device
  <2>1. StoreTypes'
    BY <1>1, <1>2, <1>4, FlushDevice DEF StoreTypes
  <2>2. QED
    BY <1>2, <1>4, <2>1 DEF FileShape, AtRest
<1>5. CASE bytes # <<>> /\ ~device
  <2>1. PICK c \in Seq(Text) :
          /\ log' = <<c>> /\ f_pos'[Server] \in 0 .. Len(c)
          /\ f_pos[Server] - Len(stream.unread) = Len(Content) =>
               c = Content \o bytes /\ f_pos'[Server] = Len(c)
    BY <1>5, FlushFile
  <2>2. partial' = <<>> /\ got' = got /\ f_pos' \in [{Server} -> Int]
    BY <1>5, FlushFile
  <2>3. log' \in Seq(Seq(Text)) /\ Len(log') = 1 /\ Content' = c
    BY <2>1 DEF Content
  <2>4. StoreTypes'
    BY <1>1, <1>2, <2>2, <2>3 DEF StoreTypes
  <2>5. FileShape'
    <3>1. Len(c) \in Nat
      BY LenProperties
    <3>2. QED
      BY <1>2, <2>1, <2>2, <2>3, <3>1 DEF FileShape
  <2>6. ASSUME AtRest PROVE AtRest'
    <3>1. f_pos[Server] = Len(Content) /\ Len(stream.unread) = 0 /\ f_pos[Server] \in Int
      BY <1>5, <2>6 DEF AtRest, StoreTypes
    <3>2. f_pos[Server] - Len(stream.unread) = Len(Content)
      BY <3>1
    <3>3. QED
      BY <1>2, <2>1, <2>3, <3>2 DEF AtRest
  <2>7. QED
    BY <2>4, <2>5, <2>6
<1>6. QED
  BY <1>3, <1>4, <1>5

(* The invariant, from its parts in the next state.                        *)
LEMMA FromParts ==
  ASSUME StoreTypes', SessionTypes', FileShape', Phases', RestInv', ReplyInv'
  PROVE  StreamInv'
  BY DEF StreamInv

(* A chunk of the message is stored as text.                               *)
LEMMA ChunkIs ==
  ASSUME SessionTypes, input # <<>>
  PROVE  CString(Fgets(input)) \in Seq(Text) /\ AfterFgets(input) \in Seq(Bytes)
<1>1. input \in Seq(Bytes)
  BY DEF SessionTypes
<1>2. Fgets(input) \in Seq(Bytes) /\ AfterFgets(input) \in Seq(Bytes)
  BY <1>1, FgetsSplits
<1>3. QED
  BY <1>2, CStringIsText

(* Steps that write.                                                       *)
LEMMA WriteSteps ==
  ASSUME StreamInv, UNCHANGED device, clock_write \/ recv_write
  PROVE  StreamInv'
<1>1. StoreTypes /\ SessionTypes /\ FileShape /\ Phases /\ RestInv /\ ReplyInv
  BY DEF StreamInv
<1>2. CASE clock_write
  <2>1. pc = "idle" /\ FwriteFlush(<<T, NL>>) /\ ticks < MaxTicks /\ ticks' = ticks + 1
        /\ UNCHANGED <<pc, session, sessions, aborts>>
    BY <1>2 DEF clock_write
  <2>2. <<T, NL>> \in Seq(Text)
    <3>1. T \in Text /\ NL \in Text
      BY ProtocolAssumption DEF Text, Bytes
    <3>2. QED
      BY <3>1
  <2>3. StoreTypes' /\ FileShape' /\ (AtRest => AtRest')
    BY <1>1, <2>1, <2>2, FlushKeeps
  <2>4. SessionTypes'
    BY <1>1, <2>1, Bounds DEF SessionTypes, session
  <2>5. Phases'
    BY <2>1 DEF Phases
  <2>6. RestInv'
    BY <1>1, <2>1, <2>3 DEF RestInv
  <2>7. ReplyInv'
    BY <2>1 DEF ReplyInv, Answered
  <2>8. QED
    BY <2>3, <2>4, <2>5, <2>6, <2>7, FromParts
<1>3. CASE recv_write
  <2> DEFINE text == CString(Fgets(input))
  <2>1. /\ pc = "recv" /\ input # <<>> /\ FwriteFlush(text) /\ own' = own \o text
        /\ pc' \in {"rewind", "recv"} /\ input' = AfterFgets(input)
        /\ UNCHANGED <<seek, reply, ok, sent, counts>>
    BY <1>3 DEF recv_write
  <2>2. text \in Seq(Text) /\ AfterFgets(input) \in Seq(Bytes)
    BY <1>1, <2>1, ChunkIs
  <2> HIDE DEF text
  <2>3. StoreTypes' /\ FileShape' /\ (AtRest => AtRest')
    BY <1>1, <2>1, <2>2, FlushKeeps
  <2>4. SessionTypes'
    <3>1. own \o text \in Seq(Text)
      BY <1>1, <2>2, ConcatProperties DEF SessionTypes
    <3>2. pc' \in Labels
      BY <2>1 DEF Labels
    <3>3. QED
      BY <1>1, <2>1, <2>2, <3>1, <3>2 DEF SessionTypes, counts
  <2>5. Phases'
    BY <1>1, <2>1 DEF Phases
  <2>6. RestInv'
    BY <1>1, <2>1, <2>3 DEF RestInv, counts
  <2>7. ReplyInv'
    BY <2>1 DEF ReplyInv, Answered
  <2>8. QED
    BY <2>3, <2>4, <2>5, <2>6, <2>7, FromParts
<1>4. QED
  BY <1>2, <1>3

(* Before a write, and a write that fails.                                 *)
LEMMA BeforeWriteSteps ==
  ASSUME StreamInv, UNCHANGED device, step_back \/ flush_fails
  PROVE  StreamInv'
<1>1. StoreTypes /\ SessionTypes /\ FileShape /\ Phases /\ RestInv /\ ReplyInv
  BY DEF StreamInv
<1>2. CASE step_back
  <2> DEFINE back == f_pos[Server] - Len(stream.unread)
  <2>1. /\ pc = "recv" /\ stream.unread # <<>>
        /\ f_pos' = [f_pos EXCEPT ![Server] = back]
        /\ stream' = [stream EXCEPT !.unread = <<>>, !.offset = back]
        /\ UNCHANGED <<log, partial, got, pc, session, written, counts>>
    BY <1>2 DEF step_back
  <2>2. Content' = Content
    BY <2>1, KeptStore
  <2>3. back \in Int /\ f_pos[Server] \in Int /\ Len(stream.unread) \in Nat
    BY <1>1, LenProperties DEF StoreTypes
  <2>4. /\ stream' = [unread |-> <<>>, offset |-> back, eof |-> stream.eof]
        /\ stream.eof \in BOOLEAN
    BY <1>1, <2>1 DEF StoreTypes
  <2>5. ~device => back >= 0 /\ back <= Len(Content) /\ Len(Content) \in Int
    <3>1. ASSUME ~device PROVE Len(Content) \in Int
      BY <1>1, <3>1, StoredParts, FileStored, LenProperties DEF StoreTypes
    <3>2. ~device => Len(stream.unread) <= f_pos[Server] /\ f_pos[Server] <= Len(Content)
      BY <1>1 DEF FileShape
    <3>3. QED
      BY <2>3, <3>1, <3>2
  <2> HIDE DEF back
  <2>6. StoreTypes'
    <3>1. f_pos' \in [{Server} -> Int]
      BY <1>1, <2>1, <2>3 DEF StoreTypes
    <3>2. stream' \in [unread: Seq(Text), offset: Int, eof: BOOLEAN]
      BY <2>3, <2>4
    <3>3. QED
      BY <1>1, <2>1, <3>1, <3>2 DEF StoreTypes
  <2>7. FileShape'
    <3>1. Len(stream'.unread) = 0 /\ f_pos'[Server] = back
      BY <1>1, <2>1, <2>4 DEF StoreTypes
    <3>2. QED
      BY <1>1, <2>1, <2>2, <2>5, <3>1 DEF FileShape
  <2>8. SessionTypes'
    BY <1>1, <2>1 DEF SessionTypes, session, counts
  <2>9. Phases'
    BY <1>1, <2>1 DEF Phases, session
  <2>10. RestInv'
    BY <1>1, <2>1 DEF RestInv, AtRest, counts
  <2>11. ReplyInv'
    BY <2>1 DEF ReplyInv, Answered
  <2>12. QED
    BY <2>6, <2>7, <2>8, <2>9, <2>10, <2>11, FromParts
<1>3. CASE flush_fails
  <2>1. /\ pc = "recv" /\ input # <<>> /\ pc' \in {"rewind", "recv"}
        /\ input' = AfterFgets(input) /\ aborts < MaxAborts /\ aborts' = aborts + 1
        /\ UNCHANGED <<stream, seek, reply, ok, sent, own, written, sessions, ticks>>
    BY <1>3 DEF flush_fails
  <2>2. UNCHANGED <<log, f_pos, got>> /\ (partial' = <<>> \/ partial' = partial)
    BY <1>3 DEF flush_fails, Device!FailedWrite, store
  <2>3. ~device => partial' = partial
    BY <1>3 DEF flush_fails, store
  <2>4. Content' = Content
    BY <2>2, KeptStore
  <2>5. StoreTypes'
    <3>1. partial' \in Seq(Text)
      <4>1. partial \in Seq(Text) /\ <<>> \in Seq(Text)
        BY <1>1 DEF StoreTypes
      <4>2. QED
        BY <2>2, <4>1
    <3>2. QED
      BY <1>1, <2>1, <2>2, <3>1 DEF StoreTypes
  <2>6. FileShape'
    BY <1>1, <2>1, <2>2, <2>3, <2>4 DEF FileShape
  <2>7. SessionTypes'
    <3>1. AfterFgets(input) \in Seq(Bytes)
      BY <1>1, <2>1, ChunkIs
    <3>2. pc' \in Labels
      BY <2>1 DEF Labels
    <3>3. aborts' \in 0 .. MaxAborts
      BY <1>1, <2>1, Bounds DEF SessionTypes
    <3>4. QED
      BY <1>1, <2>1, <3>1, <3>2, <3>3 DEF SessionTypes
  <2>8. Phases'
    BY <1>1, <2>1 DEF Phases
  <2>9. RestInv'
    BY <1>1, <2>1 DEF RestInv, SessionTypes
  <2>10. ReplyInv'
    BY <2>1 DEF ReplyInv, Answered
  <2>11. QED
    BY <2>5, <2>6, <2>7, <2>8, <2>9, <2>10, FromParts
<1>4. QED
  BY <1>2, <1>3

(* The ioctl moves the position to the byte that the client asked for.     *)
LEMMA SeekStep ==
  ASSUME StreamInv, UNCHANGED device, recv_seek
  PROVE  StreamInv'
<1>1. StoreTypes /\ SessionTypes /\ FileShape /\ Phases /\ RestInv /\ ReplyInv
  BY DEF StreamInv
<1>2. /\ pc = "recv" /\ IsSeek(Fgets(input)) /\ device /\ pc' = "fseek"
      /\ Device!SeekTo(Server, SeekTo[1], SeekTo[2]) /\ seek' = SeekTo
      /\ input' = AfterFgets(input)
      /\ UNCHANGED <<stream, reply, ok, sent, own, written, counts>>
  BY DEF recv_seek
<1>3. input # <<>> /\ AfterFgets(input) \in Seq(Bytes)
  <2>1. input # <<>>
    BY <1>2 DEF IsSeek, Fgets, FgetsLen
  <2>2. QED
    BY <1>1, <2>1, ChunkIs
<1>4. SeekTo \in Nat \X Nat
  <2>1. input \in Seq(Bytes) /\ FgetsLen(input) \in 1 .. Len(input) /\ Len(input) \in Nat
    BY <1>1, <1>3, FgetsSplits, LenProperties DEF SessionTypes
  <2>2. Fgets(input)[1] = input[1]
    <3> DEFINE m == FgetsLen(input)
    <3>1. m \in Nat /\ 1 \in 1 .. m /\ \A i \in 1 .. m : i \in 1 .. Len(input)
      BY <2>1
    <3>2. \A i \in 0 + 1 .. 0 + m : input[i] \in Bytes
      BY <2>1, <3>1, ElementOfSeq
    <3> HIDE DEF m
    <3>3. \A i \in 1 .. m : SubSeq(input, 0 + 1, 0 + m)[i] = input[0 + i]
      BY <3>1, <3>2, PartOfSeq
    <3>4. SubSeq(input, 1, m)[1] = input[1]
      BY <3>1, <3>3
    <3>5. QED
      BY <3>4 DEF Fgets, m
  <2>3. input[1] \in Int \X Int /\ UintSize \in Nat \ {0}
    BY <1>2, <2>2, ProtocolAssumption DEF IsSeek
  <2>4. input[1][1] % UintSize \in Nat /\ input[1][2] % UintSize \in Nat
    BY <2>3
  <2>5. QED
    BY <2>4 DEF SeekTo
<1>5. /\ SeekTo[1] < Len(log) /\ SeekTo[2] < Len(log[SeekTo[1] + 1])
      /\ f_pos' = [f_pos EXCEPT ![Server] = Device!Start(SeekTo[1] + 1) + SeekTo[2]]
      /\ UNCHANGED <<log, partial, got>>
  BY <1>2 DEF Device!SeekTo
<1>6. Device!Start(SeekTo[1] + 1) \in Nat
  <2>1. SeekTo[1] + 1 \in DOMAIN log
    BY <1>1, <1>4, <1>5, LenProperties DEF StoreTypes
  <2>2. QED
    BY <1>1, <2>1, StoredParts DEF StoreTypes
<1>7. /\ f_pos' \in [{Server} -> Int]
      /\ f_pos'[Server] = Device!Start(SeekTo[1] + 1) + SeekTo[2]
  <2> DEFINE p == Device!Start(SeekTo[1] + 1) + SeekTo[2]
  <2>1. p \in Int
    BY <1>4, <1>6
  <2> HIDE DEF p
  <2>2. f_pos' = [f_pos EXCEPT ![Server] = p]
    BY <1>5 DEF p
  <2>3. QED
    BY <1>1, <2>1, <2>2 DEF StoreTypes, p
<1>8. StoreTypes'
  BY <1>1, <1>2, <1>5, <1>7 DEF StoreTypes
<1>9. SessionTypes'
  <2>1. pc' \in Labels
    BY <1>2 DEF Labels
  <2>2. QED
    BY <1>1, <1>2, <1>3, <1>4, <2>1 DEF SessionTypes, counts
<1>10. FileShape'
  BY <1>2 DEF FileShape
<1>11. Phases'
  <2>1. seek' # NoSeek
    BY <1>2, <1>4 DEF NoSeek
  <2>2. f_pos'[Server] = First'
    <3>1. f_pos'[Server] = StartIn(log, seek'[1] + 1) + seek'[2]
      BY <1>2, <1>7 DEF StartIn, IsStarts, Device!Start
    <3>2. QED
      BY <1>5, <2>1, <3>1, NextFirstIs
  <2>3. QED
    BY <1>1, <1>2, <1>5, <2>1, <2>2 DEF Phases
<1>12. RestInv'
  BY <1>1, <1>2 DEF RestInv, AtRest, counts
<1>13. ReplyInv'
  BY <1>2 DEF ReplyInv, Answered
<1>14. QED
  BY <1>8, <1>9, <1>10, <1>11, <1>12, <1>13, FromParts

(* The first byte that a client gets is one of the store.                  *)
LEMMA FirstInStore ==
  ASSUME StoreTypes, SessionTypes, Phases, pc \in {"rewind", "fseek", "reply", "close"}
  PROVE  First \in 0 .. Len(Stored) /\ Len(Stored) \in Nat
<1>1. Len(Stored) \in Nat
  BY StoredParts, LenProperties DEF StoreTypes
<1>2. CASE seek = NoSeek
  BY <1>1, <1>2 DEF First
<1>3. CASE seek # NoSeek
  <2>1. seek \in Nat \X Nat /\ seek[1] < Len(log) /\ seek[2] < Len(log[seek[1] + 1])
    BY <1>3 DEF SessionTypes, Phases
  <2> DEFINE k == seek[1] + 1
  <2>2. k \in DOMAIN log
    BY <2>1, LenProperties DEF StoreTypes
  <2>3. /\ Device!Start(k) \in Nat /\ Device!Start(k) + Len(log[k]) <= Len(Stored)
        /\ Len(log[k]) \in Nat
    BY <2>2, StoredParts, LenProperties DEF StoreTypes
  <2>4. First = Device!Start(k) + seek[2]
    BY <1>3 DEF First
  <2>5. seek[2] \in Nat /\ seek[2] < Len(log[k])
    BY <2>1
  <2> HIDE DEF k
  <2>6. QED
    BY <1>1, <2>3, <2>4, <2>5
<1>4. QED
  BY <1>2, <1>3

(* Nothing has been sent yet.                                              *)
LEMMA NothingSent ==
  ASSUME NEW n \in Nat
  PROVE  <<>> \o <<>> = SubSeq(Stored, n + 1, n)
<1>1. SubSeq(Stored, n + 1, n) = <<>>
  BY SubSeqEmpty
<1>2. <<>> \in Seq(Text)
  OBVIOUS
<1>3. QED
  BY <1>1, <1>2, ConcatEmptySeq

(* The stream is put where the reply begins.                               *)
LEMMA PositionSteps ==
  ASSUME StreamInv, UNCHANGED device, rewind \/ fseek
  PROVE  StreamInv'
<1>1. StoreTypes /\ SessionTypes /\ FileShape /\ Phases /\ RestInv /\ ReplyInv
  BY DEF StreamInv
<1>2. /\ pc \in {"rewind", "fseek"} /\ pc' = "reply"
      /\ UNCHANGED <<log, partial, got, session, written, counts>>
  BY DEF rewind, fseek
<1>3. Stored' = Stored /\ Content' = Content /\ First' = First
  BY <1>2, KeptStore DEF session
<1>4. First \in 0 .. Len(Stored) /\ Len(Stored) \in Nat
  BY <1>1, <1>2, FirstInStore
<1>5. SessionTypes'
  BY <1>1, <1>2 DEF SessionTypes, Labels, session, counts
<1>6. Phases'
  BY <1>1, <1>2, <1>3 DEF Phases, session
<1>7. reply = <<>>
  BY <1>1, <1>2 DEF Phases
<1>8. CASE rewind
  <2>1. /\ f_pos' = [f_pos EXCEPT ![Server] = 0] /\ stream' = At(0) /\ pc = "rewind"
    BY <1>8 DEF rewind
  <2>2. /\ f_pos' \in [{Server} -> Int] /\ f_pos'[Server] = 0
        /\ stream' \in [unread: Seq(Text), offset: Int, eof: BOOLEAN]
        /\ stream'.unread = <<>> /\ stream'.eof = FALSE
    BY <1>1, <2>1 DEF StoreTypes, At
  <2>3. StoreTypes'
    BY <1>1, <1>2, <2>2 DEF StoreTypes
  <2>4. FileShape'
    <3>1. ~device => Len(Content) = Len(Stored)
      BY <1>1, FileStored
    <3>2. Len(stream'.unread) = 0
      BY <2>2
    <3>3. QED
      BY <1>1, <1>2, <1>3, <1>4, <2>2, <3>1, <3>2 DEF FileShape
  <2>5. RestInv'
    BY <1>2, <2>2 DEF RestInv
  <2>6. ReplyInv'
    <3>1. First = 0
      BY <1>1, <2>1 DEF Phases, First
    <3>2. <<>> \o <<>> = SubSeq(Stored, 0 + 1, 0)
      BY NothingSent
    <3>3. UNCHANGED reply
      BY <1>2 DEF session
    <3>4. QED
      BY <1>2, <1>3, <1>4, <1>7, <2>2, <3>1, <3>2, <3>3 DEF ReplyInv, Answered
  <2>7. QED
    BY <1>5, <1>6, <2>3, <2>4, <2>5, <2>6, FromParts
<1>9. CASE fseek
  <2>1. pc = "fseek" /\ device /\ seek # NoSeek /\ f_pos[Server] = First
    BY <1>1, <1>9 DEF fseek, Phases
  <2>2. \/ /\ stream.offset = Unknown
           /\ stream' = At(f_pos[Server]) /\ UNCHANGED f_pos
        \/ /\ stream.offset # Unknown
           /\ stream' = [stream EXCEPT !.eof = FALSE]
           /\ f_pos' = [f_pos EXCEPT ![Server] = stream.offset]
    BY <1>9 DEF fseek
  <2>3. stream.offset \in Int /\ f_pos[Server] \in Int
    BY <1>1 DEF StoreTypes
  <2>4. StoreTypes'
    <3>1. f_pos' \in [{Server} -> Int]
      BY <1>1, <2>2, <2>3 DEF StoreTypes
    <3>2. stream' \in [unread: Seq(Text), offset: Int, eof: BOOLEAN]
      <4> DEFINE R == [unread: Seq(Text), offset: Int, eof: BOOLEAN]
      <4>1. stream \in R
        BY <1>1 DEF StoreTypes
      <4>2. At(f_pos[Server]) \in R
        BY <2>3 DEF At
      <4>3. [stream EXCEPT !.eof = FALSE] \in R
        BY <4>1
      <4> HIDE DEF R
      <4>4. stream' \in R
        BY <2>2, <4>2, <4>3
      <4>5. QED
        BY <4>4 DEF R
    <3>3. QED
      BY <1>1, <1>2, <3>1, <3>2 DEF StoreTypes
  <2>5. FileShape'
    BY <2>1 DEF FileShape
  <2>6. ASSUME aborts = 0
        PROVE  stream' = At(First) /\ f_pos'[Server] = First
    <3>1. stream.offset = Unknown
      BY <1>1, <2>1, <2>6 DEF RestInv, AtRest
    <3>2. QED
      BY <2>1, <2>2, <3>1
  <2>7. UNCHANGED <<aborts, reply, seek>>
    BY <1>2 DEF session, counts
  <2>8. RestInv'
    BY <1>2, <2>6, <2>7 DEF RestInv, At
  <2>9. ReplyInv'
    <3>1. ASSUME aborts = 0
          PROVE  /\ First <= f_pos'[Server] /\ f_pos'[Server] <= Len(Stored)
                 /\ reply' \o stream'.unread = SubSeq(Stored, First + 1, f_pos'[Server])
                 /\ ~stream'.eof
      <4>1. <<>> \o <<>> = SubSeq(Stored, First + 1, First)
        BY <1>4, NothingSent
      <4>2. stream'.unread = <<>> /\ ~stream'.eof /\ reply' = <<>> /\ f_pos'[Server] = First
        BY <1>7, <2>6, <2>7, <3>1 DEF At
      <4>3. QED
        BY <1>4, <4>1, <4>2
    <3>2. pc' = "reply" /\ ~Answered' /\ (seek' = NoSeek' \/ aborts' = 0 => aborts = 0)
      BY <1>2, <2>1, <2>7 DEF Answered, NoSeek
    <3>3. QED
      BY <1>3, <3>1, <3>2 DEF ReplyInv
  <2>10. QED
    BY <1>5, <1>6, <2>4, <2>5, <2>8, <2>9, FromParts
<1>10. QED
  BY <1>8, <1>9

(* The stream reads on.                                                    *)
LEMMA FillStep ==
  ASSUME StreamInv, UNCHANGED device, fill
  PROVE  StreamInv'
<1>1. StoreTypes /\ SessionTypes /\ FileShape /\ Phases /\ RestInv /\ ReplyInv
  BY DEF StreamInv
<1> DEFINE bytes == got'[Server]
           pos == f_pos[Server]
           u == stream.unread
           o == IF bytes = <<>> THEN Unknown ELSE stream.offset + Len(bytes)
<1>2. /\ pc = "reply" /\ ~stream.eof /\ Device!Read(Server, StreamSize)
      /\ stream' = [unread |-> u \o bytes, offset |-> o, eof |-> bytes = <<>>]
      /\ UNCHANGED <<pc, session, written, counts>>
  BY DEF fill
<1>3. /\ UNCHANGED <<log, partial>> /\ bytes \in Seq(Text) /\ got' \in [{Server} -> Seq(Text)]
      /\ f_pos' \in [{Server} -> Int] /\ f_pos'[Server] = pos + Len(bytes)
      /\ bytes = <<>> /\ pos >= 0 => pos >= Len(Stored)
      /\ bytes # <<>> => /\ pos >= 0 /\ pos + Len(bytes) <= Len(Stored)
                         /\ bytes = SubSeq(Stored, pos + 1, pos + Len(bytes))
  BY <1>1, <1>2, ReadIs DEF StoreTypes
<1>4. Stored' = Stored /\ Content' = Content /\ First' = First
  BY <1>2, <1>3, KeptStore DEF session
<1>5. /\ pos \in Int /\ u \in Seq(Text) /\ stream.offset \in Int /\ Len(u) \in Nat
      /\ Len(bytes) \in Nat /\ (bytes = <<>> => Len(bytes) = 0)
  BY <1>1, <1>3, LenProperties DEF StoreTypes
<1>6. Stored \in Seq(Text) /\ Len(Stored) \in Nat
  BY <1>1, StoredParts, LenProperties DEF StoreTypes
<1>7. First \in 0 .. Len(Stored)
  BY <1>1, <1>2, FirstInStore
<1> HIDE DEF bytes, pos, u
<1>8. /\ stream'.unread = u \o bytes /\ stream'.offset = o
      /\ stream'.eof = (bytes = <<>>)
      /\ stream' \in [unread: Seq(Text), offset: Int, eof: BOOLEAN]
  <2>1. u \o bytes \in Seq(Text)
    BY <1>3, <1>5, ConcatProperties
  <2>2. o \in Int
    BY <1>5 DEF Unknown
  <2> HIDE DEF o
  <2>3. (bytes = <<>>) \in BOOLEAN
    OBVIOUS
  <2>4. QED
    BY <1>2, <2>1, <2>2, <2>3
<1>9. Len(u \o bytes) = Len(u) + Len(bytes)
  BY <1>3, <1>5, ConcatProperties
<1>10. StoreTypes'
  BY <1>1, <1>2, <1>3, <1>8 DEF StoreTypes, bytes
<1>11. SessionTypes'
  BY <1>1, <1>2 DEF SessionTypes, session, counts
<1>12. ~device => Stored = Content /\ Len(u) <= pos /\ pos <= Len(Stored)
  BY <1>1, FileStored DEF FileShape, pos, u
<1>13. FileShape'
  <2>1. ASSUME ~device
        PROVE  Len(log') <= 1 /\ partial' = <<>> /\ Len(stream'.unread) <= f_pos'[Server]
               /\ f_pos'[Server] <= Len(Stored)
    <3>1. Len(log') <= 1 /\ partial' = <<>>
      BY <1>1, <1>3, <2>1 DEF FileShape
    <3>2. Len(u) + Len(bytes) <= pos + Len(bytes) /\ pos + Len(bytes) <= Len(Stored)
      BY <1>3, <1>5, <1>6, <1>12, <2>1
    <3>3. QED
      BY <1>3, <1>8, <1>9, <3>1, <3>2
  <2>2. QED
    BY <1>4, <1>12, <2>1 DEF FileShape
<1>14. Phases'
  BY <1>1, <1>2, <1>3, <1>4 DEF Phases, session
<1>15. RestInv'
  <2>1. pc' = "reply"
    BY <1>2
  <2>2. ASSUME stream'.eof
        PROVE  stream'.offset = Unknown /\ (device \/ f_pos'[Server] = Len(Content))
    <3>1. bytes = <<>>
      BY <1>8, <2>2
    <3>2. stream'.offset = Unknown
      BY <1>8, <3>1
    <3>3. ASSUME ~device PROVE f_pos'[Server] = Len(Content)
      BY <1>3, <1>5, <1>6, <1>12, <3>1, <3>3
    <3>4. QED
      BY <3>2, <3>3
  <2>3. QED
    BY <1>4, <2>1, <2>2 DEF RestInv, Unknown
<1>16. ReplyInv'
  <2>1. pc' = "reply" /\ ~Answered' /\ UNCHANGED <<seek, aborts, reply>>
    BY <1>2 DEF Answered, session, counts
  <2>2. ASSUME seek = NoSeek \/ aborts = 0
        PROVE  /\ First <= f_pos'[Server] /\ f_pos'[Server] <= Len(Stored)
               /\ reply \o (u \o bytes) = SubSeq(Stored, First + 1, f_pos'[Server])
               /\ stream'.eof => f_pos'[Server] = Len(Stored)
    <3>1. /\ First <= pos /\ pos <= Len(Stored)
          /\ reply \o u = SubSeq(Stored, First + 1, pos)
      BY <1>1, <1>2, <2>2 DEF ReplyInv, pos, u
    <3>2. CASE bytes = <<>>
      <4>1. f_pos'[Server] = pos /\ pos = Len(Stored)
        BY <1>3, <1>5, <1>6, <1>7, <3>1, <3>2
      <4>2. u \o bytes = u
        BY <1>5, <3>2, ConcatEmptySeq
      <4>3. QED
        BY <3>1, <4>1, <4>2
    <3>3. CASE bytes # <<>>
      <4>1. f_pos'[Server] = pos + Len(bytes) /\ pos + Len(bytes) <= Len(Stored) /\ ~stream'.eof
        BY <1>3, <1>8, <3>3
      <4>2. reply \o (u \o bytes) = (reply \o u) \o bytes
        <5>1. reply \in Seq(Text) /\ u \in Seq(Text) /\ bytes \in Seq(Text)
          BY <1>1, <1>3, <1>5 DEF SessionTypes
        <5>2. QED
          BY <5>1
      <4>3. SubSeq(Stored, First + 1, pos) \o SubSeq(Stored, pos + 1, pos + Len(bytes))
              = SubSeq(Stored, First + 1, pos + Len(bytes))
        <5> DEFINE m == First + 1
                   n == pos + Len(bytes)
        <5>1. m \in 1 .. Len(Stored) + 1 /\ pos \in m - 1 .. Len(Stored) /\ n \in pos .. Len(Stored)
          BY <1>5, <1>6, <1>7, <3>1, <4>1
        <5> HIDE DEF m, n
        <5>2. SubSeq(Stored, m, pos) \o SubSeq(Stored, pos + 1, n) = SubSeq(Stored, m, n)
          BY <1>6, <5>1, ConcatAdjacentSubSeq
        <5>3. QED
          BY <5>2 DEF m, n
      <4>4. reply \o (u \o bytes) = SubSeq(Stored, First + 1, f_pos'[Server])
        BY <1>3, <3>1, <3>3, <4>1, <4>2, <4>3
      <4>5. First <= pos + Len(bytes)
        BY <1>5, <1>7, <3>1
      <4>6. QED
        BY <4>1, <4>4, <4>5
    <3>4. QED
      BY <3>2, <3>3
  <2>3. QED
    BY <1>4, <1>8, <2>1, <2>2 DEF ReplyInv, NoSeek
<1>17. QED
  BY <1>10, <1>11, <1>13, <1>14, <1>15, <1>16, FromParts

(* A line of the reply.                                                    *)
LEMMA LineIs ==
  ASSUME StoreTypes, CanSend
  PROVE  LET u == stream.unread
         IN  /\ u \in Seq(Text) /\ u # <<>>
             /\ Fgets(u) \in Seq(Text) /\ AfterFgets(u) \in Seq(Text)
             /\ CString(Fgets(u)) = Fgets(u) /\ Fgets(u) \o AfterFgets(u) = u
             /\ Len(AfterFgets(u)) <= Len(u)
<1> DEFINE u == stream.unread
<1>1. u \in Seq(Text)
  BY DEF StoreTypes
<1>2. u # <<>>
  <2>1. ASSUME HasLine(u) PROVE u # <<>>
    <3>1. Len(<<>>) = 0 /\ \A i : i \notin DOMAIN <<>>
      OBVIOUS
    <3>2. LineSize \in Nat \ {0}
      BY ProtocolAssumption
    <3>3. ~HasLine(<<>>)
      BY <3>1, <3>2 DEF HasLine
    <3>4. QED
      BY <2>1, <3>3
  <2>2. QED
    BY <2>1 DEF CanSend
<1> HIDE DEF u
<1>3. /\ Fgets(u) \in Seq(Text) /\ AfterFgets(u) \in Seq(Text)
      /\ Fgets(u) \o AfterFgets(u) = u
  BY <1>1, <1>2, FgetsSplits
<1>4. CString(Fgets(u)) = Fgets(u)
  <2> DEFINE s == Fgets(u)
  <2>1. DOMAIN s = 1 .. Len(s) /\ \A i \in 1 .. Len(s) : s[i] \in Text
    BY <1>3, LenProperties, ElementOfSeq
  <2>2. \A i \in DOMAIN s : s[i] # NUL
    BY <2>1 DEF Text
  <2> HIDE DEF s
  <2>3. CString(s) = s
    BY <2>2, CStringOfText
  <2>4. QED
    BY <2>3 DEF s
<1>5. Len(AfterFgets(u)) <= Len(u)
  <2>1. Len(u) = Len(Fgets(u)) + Len(AfterFgets(u))
    BY <1>3, ConcatProperties
  <2>2. Len(Fgets(u)) \in Nat /\ Len(AfterFgets(u)) \in Nat
    BY <1>3, LenProperties
  <2>3. QED
    BY <2>1, <2>2
<1>6. QED
  BY <1>1, <1>2, <1>3, <1>4, <1>5 DEF u

(* A line goes to the client, or does not, or is not read.                 *)
LEMMA SendSteps ==
  ASSUME StreamInv, UNCHANGED device, send \/ send_fails \/ read_fails
  PROVE  StreamInv'
<1>1. StoreTypes /\ SessionTypes /\ FileShape /\ Phases /\ RestInv /\ ReplyInv
  BY DEF StreamInv
<1>2. /\ pc = "reply" /\ UNCHANGED <<log, partial, f_pos, got, seek, ok, written>>
      /\ UNCHANGED <<input, sent, own, sessions, ticks>>
  BY DEF send, send_fails, read_fails, Flushes, CanSend, session, counts, store
<1>3. Stored' = Stored /\ Content' = Content /\ First' = First
  BY <1>2, KeptStore
<1> DEFINE u == stream.unread
<1>4. stream \in [unread: Seq(Text), offset: Int, eof: BOOLEAN]
  BY <1>1 DEF StoreTypes
<1>5. CASE send
  <2>1. CanSend /\ UNCHANGED <<pc, aborts>>
    BY <1>5 DEF send, counts
  <2>2. /\ reply' = reply \o CString(Fgets(u))
        /\ stream' = [stream EXCEPT !.unread = AfterFgets(u)]
    BY <1>5 DEF send
  <2>3. /\ u \in Seq(Text)
        /\ Fgets(u) \in Seq(Text) /\ AfterFgets(u) \in Seq(Text)
        /\ CString(Fgets(u)) = Fgets(u) /\ Fgets(u) \o AfterFgets(u) = u
        /\ Len(AfterFgets(u)) <= Len(u)
    BY <1>1, <2>1, LineIs
  <2> DEFINE line == Fgets(u)
             rest == AfterFgets(u)
  <2> HIDE DEF u, line, rest
  <2>4. /\ stream'.unread = rest /\ stream'.eof = stream.eof /\ stream'.offset = stream.offset
        /\ stream' \in [unread: Seq(Text), offset: Int, eof: BOOLEAN]
    BY <1>4, <2>2, <2>3 DEF rest
  <2>5. StoreTypes'
    BY <1>1, <1>2, <2>4 DEF StoreTypes
  <2>6. reply' = reply \o line /\ reply' \in Seq(Text) /\ reply \in Seq(Text)
    <3>1. reply \in Seq(Text) /\ line \in Seq(Text) /\ reply' = reply \o line
      BY <1>1, <2>2, <2>3 DEF SessionTypes, line
    <3>2. QED
      BY <3>1, ConcatProperties
  <2>7. SessionTypes'
    BY <1>1, <1>2, <2>1, <2>6 DEF SessionTypes
  <2>8. FileShape'
    <3>1. ASSUME ~device PROVE Len(stream'.unread) <= f_pos[Server]
      <4>1. Len(u) <= f_pos[Server] /\ f_pos[Server] \in Int
        BY <1>1, <3>1 DEF FileShape, StoreTypes, u
      <4>2. Len(u) \in Nat /\ Len(rest) \in Nat /\ Len(rest) <= Len(u)
        BY <2>3, LenProperties DEF rest
      <4>3. QED
        BY <2>4, <4>1, <4>2
    <3>2. QED
      BY <1>1, <1>2, <1>3, <3>1 DEF FileShape
  <2>9. Phases'
    BY <1>1, <1>2, <1>3, <2>1 DEF Phases
  <2>10. RestInv'
    BY <1>1, <1>2, <1>3, <2>1, <2>4 DEF RestInv
  <2>11. reply' \o rest = reply \o u
    <3>1. reply \in Seq(Text) /\ line \in Seq(Text) /\ rest \in Seq(Text)
      BY <2>3, <2>6 DEF line, rest
    <3>2. (reply \o line) \o rest = reply \o (line \o rest)
      BY <3>1, ConcatAssociative, SMTT(30)
    <3>3. line \o rest = u
      BY <2>3 DEF line, rest
    <3>4. QED
      BY <2>6, <3>2, <3>3
  <2>12. ReplyInv'
    BY <1>1, <1>2, <1>3, <2>1, <2>4, <2>11 DEF ReplyInv, Answered, u, NoSeek
  <2>13. QED
    BY <2>5, <2>7, <2>8, <2>9, <2>10, <2>12, FromParts
<1>6. CASE send_fails \/ read_fails
  <2>1. /\ aborts < MaxAborts /\ aborts' = aborts + 1 /\ pc' = "close" /\ reply' = reply
    BY <1>6 DEF send_fails, read_fails, session
  <2>2. /\ stream' \in [unread: Seq(Text), offset: Int, eof: BOOLEAN]
        /\ Len(stream'.unread) \in Nat /\ Len(stream'.unread) <= Len(u) /\ Len(u) \in Nat
    <3>1. u \in Seq(Text) /\ Len(u) \in Nat
      BY <1>4, LenProperties
    <3>2. CASE send_fails
      <4>1. CanSend /\ stream' = [stream EXCEPT !.unread = AfterFgets(u)]
        BY <3>2 DEF send_fails, Flushes
      <4>2. AfterFgets(u) \in Seq(Text) /\ Len(AfterFgets(u)) <= Len(u)
        BY <1>1, <4>1, LineIs
      <4>3. Len(AfterFgets(u)) \in Nat
        BY <4>2, LenProperties
      <4> HIDE DEF u
      <4>4. stream'.unread = AfterFgets(u)
            /\ stream' \in [unread: Seq(Text), offset: Int, eof: BOOLEAN]
        BY <1>4, <4>1, <4>2
      <4>5. QED
        BY <3>1, <4>2, <4>3, <4>4
    <3>3. CASE read_fails
      <4>1. stream' = [unread |-> <<>>, offset |-> Unknown, eof |-> FALSE]
        BY <3>3 DEF read_fails
      <4> HIDE DEF u
      <4>2. QED
        BY <3>1, <4>1 DEF Unknown
    <3>4. QED
      BY <1>6, <3>2, <3>3
  <2>3. StoreTypes'
    BY <1>1, <1>2, <2>2 DEF StoreTypes
  <2>4. SessionTypes'
    BY <1>1, <1>2, <2>1, Bounds DEF SessionTypes, Labels
  <2>5. FileShape'
    <3>1. ASSUME ~device PROVE Len(stream'.unread) <= f_pos[Server]
      <4>1. Len(u) <= f_pos[Server] /\ f_pos[Server] \in Int
        BY <1>1, <3>1 DEF FileShape, StoreTypes
      <4>2. QED
        BY <2>2, <4>1
    <3>2. QED
      BY <1>1, <1>2, <1>3, <3>1 DEF FileShape
  <2>6. Phases'
    BY <1>1, <1>2, <1>3, <2>1 DEF Phases
  <2>7. RestInv'
    BY <1>1, <2>1 DEF RestInv, SessionTypes
  <2>8. ReplyInv'
    BY <1>1, <1>2, <2>1 DEF ReplyInv, Answered, Phases
  <2>9. QED
    BY <2>3, <2>4, <2>5, <2>6, <2>7, <2>8, FromParts
<1>7. QED
  BY <1>5, <1>6

(* Every step keeps the invariant.                                         *)
LEMMA NextStream == StreamInv /\ [Next]_vars => StreamInv'
<1> SUFFICES ASSUME StreamInv, [Next]_vars PROVE StreamInv'
  OBVIOUS
<1>1. CASE Next
  BY <1>1, QuietSteps, WriteSteps, BeforeWriteSteps, SeekStep, PositionSteps, FillStep, SendSteps
  DEF Next, server_protocol
<1>2. CASE UNCHANGED vars
  <2>1. UNCHANGED device
    BY <1>2 DEF vars
  <2>2. UNCHANGED <<log, partial, f_pos, got, stream, written, pc, session, counts>>
    BY <1>2 DEF vars, store
  <2>3. Stored' = Stored /\ Content' = Content /\ First' = First
    BY <2>2, KeptStore DEF session
  <2>4. StoreTypes' /\ SessionTypes'
    BY <2>1, <2>2 DEF StreamInv, StoreTypes, SessionTypes, session, counts
  <2>5. FileShape' /\ Phases'
    BY <2>1, <2>2, <2>3 DEF StreamInv, FileShape, Phases, session
  <2>6. RestInv'
    BY <2>1, <2>2, <2>3 DEF StreamInv, RestInv, AtRest, counts
  <2>7. ReplyInv'
    BY <2>2, <2>3 DEF StreamInv, ReplyInv, Answered, session, counts
  <2>8. QED
    BY <2>4, <2>5, <2>6, <2>7, FromParts
<1>3. QED
  BY <1>1, <1>2

(* The invariant holds always.                                             *)
LEMMA StreamInvariant == Spec => []StreamInv
  BY InitStream, NextStream, PTL DEF Spec
-----------------------------------------------------------------------------
(* What a session gets and leaves.                                         *)

(* A session of server_protocol leaves output_file ready for the next: no  *)
(* bytes read ahead, and a regular file at its end.                        *)
THEOREM SessionsSettle == Spec => []Settled
<1>1. StreamInv => Settled
  BY DEF StreamInv, RestInv, AtRest, Settled
<1>2. QED
  BY <1>1, StreamInvariant, PTL

(* The loop of fgets and fwrite sends the whole store, whatever the sizes  *)
(* of the buffers, and whatever calls have failed before.                  *)
THEOREM RepliesAreComplete == Spec => []ReplyIsStore
<1>1. StreamInv => ReplyIsStore
  <2> SUFFICES ASSUME StreamInv, Answered, seek = NoSeek PROVE reply = Stored
    BY DEF ReplyIsStore
  <2>1. reply = SubSeq(Stored, 0 + 1, Len(Stored))
    BY DEF StreamInv, ReplyInv, First
  <2>2. Stored \in Seq(Text)
    BY StoredParts DEF StreamInv, StoreTypes
  <2>3. QED
    BY <2>1, <2>2, SubSeqFull
<1>2. QED
  BY <1>1, StreamInvariant, PTL

(* After AESDCHAR_IOCSEEKTO the reply begins at the byte asked for, as     *)
(* long as no call has failed.                                             *)
THEOREM SeeksAreFollowed == Spec => []SeekReplyIsRest
<1>1. StreamInv => SeekReplyIsRest
  <2> SUFFICES ASSUME StreamInv, aborts = 0, Answered, seek # NoSeek
               PROVE  reply = SubSeq(Stored, Device!Start(seek[1] + 1) + seek[2] + 1, Len(Stored))
    BY DEF SeekReplyIsRest, SeekIsFollowed
  <2>1. reply = SubSeq(Stored, First + 1, Len(Stored))
    BY DEF StreamInv, ReplyInv
  <2>2. QED
    BY <2>1 DEF First
<1>2. QED
  BY <1>1, StreamInvariant, PTL
-----------------------------------------------------------------------------
(* What becomes of what is written.                                        *)

(* Sequences one after the other, in two ways to group them.               *)
LEMMA Regroup ==
  \A b \in Seq(Text) : \A u, s, p \in Seq(Text) :
     (u \o (s \o p)) \o b = u \o (s \o (p \o b))
<1> SUFFICES ASSUME NEW b \in Seq(Text), NEW u \in Seq(Text), NEW s \in Seq(Text), NEW p \in Seq(Text)
             PROVE  (u \o (s \o p)) \o b = u \o (s \o (p \o b))
  OBVIOUS
<1> DEFINE q == s \o p
<1>1. q \in Seq(Text)
  BY ConcatProperties
<1>2. q \o b = s \o (p \o b)
  BY ConcatAssociative, SMTT(30)
<1> HIDE DEF q
<1>3. (u \o q) \o b = u \o (q \o b)
  BY <1>1, ConcatAssociative, SMTT(30)
<1>4. QED
  BY <1>2, <1>3 DEF q

(* The end of a sequence, as SequencesExt says it.                         *)
LEMMA EndIsSuffix ==
  ASSUME NEW B, NEW u \in Seq(B), NEW x \in Seq(B)
  PROVE  IsSuffix(x, u \o x)
<1> DEFINE t == u \o x
           n == Len(x)
<1>1. /\ t \in Seq(B) /\ Len(t) = Len(u) + n /\ n \in Nat /\ Len(u) \in Nat
      /\ \A i \in 1 .. Len(u) + n : t[i] = IF i <= Len(u) THEN u[i] ELSE x[i - Len(u)]
  BY ConcatProperties, LenProperties
<1>2. \A i \in 1 .. n : x[i] \in B
  BY ElementOfSeq
<1>3. \A i \in 1 .. Len(t) : t[i] \in B
  BY <1>1, ElementOfSeq
<1> DEFINE rx == Reverse(x)
           rt == Reverse(t)
<1> HIDE DEF t, n
<1>4. /\ rx = [i \in 1 .. n |-> x[(n - i) + 1]]
      /\ rt = [i \in 1 .. Len(t) |-> t[(Len(t) - i) + 1]]
  BY DEF Reverse, n
<1> HIDE DEF rx, rt
<1>5. \A i \in 1 .. n : (n - i) + 1 \in 1 .. n
  BY <1>1
<1>6. \A i \in 1 .. Len(t) : (Len(t) - i) + 1 \in 1 .. Len(t)
  BY <1>1
<1>7. rx \in Seq(B) /\ Len(rx) = n
  <2>1. \A i \in 1 .. n : x[(n - i) + 1] \in B
    BY <1>2, <1>5
  <2>2. QED
    BY <1>1, <1>4, <2>1
<1>8. rt \in Seq(B) /\ Len(rt) = Len(t)
  <2>1. \A i \in 1 .. Len(t) : t[(Len(t) - i) + 1] \in B
    BY <1>3, <1>6
  <2>2. Len(t) \in Nat
    BY <1>1
  <2>3. QED
    BY <1>4, <2>1, <2>2
<1>9. \A i \in 1 .. n : rx[i] = rt[i] /\ rx[i] \in B /\ rt[i] \in B
  <2> SUFFICES ASSUME NEW i \in 1 .. n PROVE rx[i] = rt[i] /\ rx[i] \in B
    OBVIOUS
  <2> DEFINE j == (Len(t) - i) + 1
  <2>1. j \in 1 .. Len(u) + n /\ ~(j <= Len(u)) /\ j - Len(u) = (n - i) + 1 /\ i \in 1 .. Len(t)
    BY <1>1
  <2>2. rt[i] = t[j]
    BY <1>4, <2>1
  <2> HIDE DEF j
  <2>3. t[j] = x[(n - i) + 1]
    BY <1>1, <2>1
  <2>4. rx[i] = x[(n - i) + 1]
    BY <1>4
  <2>5. QED
    BY <1>2, <1>5, <2>2, <2>3, <2>4
<1>10. SubSeq(rx, 1, n) = SubSeq(rt, 1, n)
  <2> DEFINE a == SubSeq(rx, 0 + 1, 0 + n)
             b == SubSeq(rt, 0 + 1, 0 + n)
  <2>1. a \in Seq(B) /\ Len(a) = n /\ \A i \in 1 .. n : a[i] = rx[0 + i]
    BY <1>1, <1>9, PartOfSeq
  <2>2. b \in Seq(B) /\ Len(b) = n /\ \A i \in 1 .. n : b[i] = rt[0 + i]
    BY <1>1, <1>9, PartOfSeq
  <2> HIDE DEF a, b
  <2>3. \A i \in 1 .. Len(a) : a[i] = b[i]
    BY <1>9, <2>1, <2>2
  <2>4. a = b
    BY <2>1, <2>2, <2>3, SeqEqual
  <2>5. 0 + 1 = 1 /\ 0 + n = n
    BY <1>1
  <2>6. QED
    BY <2>4, <2>5 DEF a, b
<1>11. IsPrefix(rx, rt)
  BY <1>1, <1>7, <1>8, <1>10 DEF IsPrefix
<1>12. QED
  BY <1>11 DEF IsSuffix, rx, rt, t

(* The beginning of a sequence.                                            *)
LEMMA BeginIsPrefix ==
  ASSUME NEW B, NEW x \in Seq(B), NEW w \in Seq(B)
  PROVE  IsPrefix(x, x \o w)
<1> DEFINE t == x \o w
           n == Len(x)
<1>1. /\ t \in Seq(B) /\ Len(t) = n + Len(w) /\ n \in Nat /\ Len(w) \in Nat
      /\ \A i \in 1 .. n + Len(w) : t[i] = IF i <= n THEN x[i] ELSE w[i - n]
  BY ConcatProperties, LenProperties
<1> HIDE DEF t
<1>2. \A i \in 1 .. n : t[i] = x[i] /\ x[i] \in B /\ t[i] \in B
  <2>1. \A i \in 1 .. n : i \in 1 .. n + Len(w) /\ i <= n
    BY <1>1
  <2>2. \A i \in 1 .. n : x[i] \in B
    BY ElementOfSeq
  <2>3. QED
    BY <1>1, <2>1, <2>2
<1> DEFINE a == SubSeq(x, 0 + 1, 0 + n)
           b == SubSeq(t, 0 + 1, 0 + n)
<1>3. a \in Seq(B) /\ Len(a) = n /\ \A i \in 1 .. n : a[i] = x[0 + i]
  BY <1>1, <1>2, PartOfSeq
<1>4. b \in Seq(B) /\ Len(b) = n /\ \A i \in 1 .. n : b[i] = t[0 + i]
  BY <1>1, <1>2, PartOfSeq
<1> HIDE DEF a, b, n
<1>5. \A i \in 1 .. Len(a) : a[i] = b[i]
  BY <1>2, <1>3, <1>4
<1>6. a = b
  BY <1>3, <1>4, <1>5, SeqEqual
<1>7. 0 + 1 = 1 /\ 0 + n = n /\ n <= Len(t)
  BY <1>1
<1>8. SubSeq(x, 1, n) = SubSeq(t, 1, n)
  BY <1>6, <1>7 DEF a, b
<1>9. QED
  BY <1>7, <1>8 DEF IsPrefix, n, t

\* What is stored is the end of what was written, and all of it until the
\* ring of the device is full.
StoreInv ==
  /\ Len(log) <= Capacity
  /\ aborts = 0 =>
       \E u \in Seq(Text) :
         /\ written = u \o (Stored \o partial)
         /\ u = <<>> \/ (device /\ Len(log) = Capacity)

\* The line of the session is the end of the store, and the beginning of what
\* the client sent.
Delivered ==
  /\ own # <<>> /\ Last(own) = NL
  /\ \E v \in Seq(Text) : Stored = v \o own
  /\ \E w \in Seq(Bytes) : sent = own \o w

LineInv ==
  aborts = 0 /\ NUL \notin Range(sent) =>
    /\ pc = "recv" =>
         /\ own \o input = sent
         /\ \E v \in Seq(Text) : (IF device THEN partial ELSE Stored) = v \o own
    /\ (pc \in {"rewind", "reply"} \/ Answered) /\ seek = NoSeek => Delivered

(* What a write does to the concatenation of the commands.                 *)
LEMMA FlushStored ==
  ASSUME StoreTypes, FileShape, Len(log) <= Capacity, UNCHANGED device,
         NEW bytes \in Seq(Text), bytes # <<>>, FwriteFlush(bytes), device \/ AtRest
  PROVE  /\ ~device => Stored' = Stored \o bytes /\ partial' = partial /\ partial = <<>>
         /\ device /\ bytes[Len(bytes)] # NL => log' = log /\ partial' = partial \o bytes
         /\ device /\ bytes[Len(bytes)] = NL =>
              /\ partial' = <<>> /\ partial \o bytes \in Seq(Text)
              /\ \/ /\ Len(log) < Capacity /\ Len(log') = Len(log) + 1
                    /\ Stored' = Stored \o (partial \o bytes)
                 \/ /\ Len(log) = Capacity /\ Len(log') = Capacity
                    /\ \E x, y \in Seq(Text) :
                         /\ Stored \o (partial \o bytes) = x \o Stored'
                         /\ Stored' = y \o (partial \o bytes)
<1>0. log \in Seq(Seq(Text)) /\ Len(log) \in Nat /\ Capacity \in Nat \ {0}
  BY LenProperties, ProtocolAssumption DEF StoreTypes
<1>1. ASSUME ~device PROVE Stored' = Stored \o bytes /\ partial' = partial /\ partial = <<>>
  <2>1. partial = <<>> /\ partial' = <<>>
    BY <1>1, FlushFile DEF FileShape
  <2>2. f_pos[Server] - Len(stream.unread) = Len(Content)
    <3>1. f_pos[Server] = Len(Content) /\ Len(stream.unread) = 0 /\ f_pos[Server] \in Int
      BY <1>1 DEF AtRest, StoreTypes
    <3>2. QED
      BY <3>1
  <2>3. PICK c \in Seq(Text) : log' = <<c>> /\ c = Content \o bytes
    BY <1>1, <2>2, FlushFile
  <2>4. Concatenation(log') = c
    <3>1. log' \in Seq(Seq(Text)) /\ Len(log') = 1 /\ log'[1] = c
      BY <2>3
    <3>2. QED
      BY <3>1, ConcatenationIs
  <2>5. Stored = Content
    BY <1>1, FileStored
  <2>6. QED
    BY <2>1, <2>3, <2>4, <2>5 DEF Stored
<1>2. ASSUME device, bytes[Len(bytes)] # NL PROVE log' = log /\ partial' = partial \o bytes
  BY <1>2, FlushDevice
<1>3. ASSUME device, bytes[Len(bytes)] = NL
      PROVE  /\ partial' = <<>> /\ partial \o bytes \in Seq(Text)
             /\ \/ /\ Len(log) < Capacity /\ Len(log') = Len(log) + 1
                   /\ Stored' = Stored \o (partial \o bytes)
                \/ /\ Len(log) = Capacity /\ Len(log') = Capacity
                   /\ \E x, y \in Seq(Text) :
                        /\ Stored \o (partial \o bytes) = x \o Stored'
                        /\ Stored' = y \o (partial \o bytes)
  <2> DEFINE p == partial \o bytes
             t == Append(log, p)
  <2>1. partial' = <<>> /\ p \in Seq(Text) /\ log' = Device!Recent(t)
    BY <1>3, FlushDevice
  <2> HIDE DEF p
  <2>2. t \in Seq(Seq(Text)) /\ Len(t) = Len(log) + 1 /\ t # <<>>
    BY <1>0, <2>1, AppendProperties
  <2>3. Concatenation(t) = Stored \o p
    BY <1>0, <2>1, ConcatenationAppend DEF Stored
  <2>4. CASE Len(log) < Capacity
    <3>1. ~(Len(t) > Capacity)
      BY <1>0, <2>2, <2>4
    <3>2. log' = t
      BY <2>1, <3>1 DEF Device!Recent
    <3> HIDE DEF t
    <3>3. Stored' = Stored \o p /\ Len(log') = Len(log) + 1
      BY <2>2, <2>3, <3>2 DEF Stored
    <3>4. QED
      BY <2>1, <2>4, <3>3 DEF p
  <2>5. CASE ~(Len(log) < Capacity)
    <3>1. Len(t) > Capacity /\ Len(log) = Capacity /\ log # <<>>
      <4>1. Len(log) = Capacity /\ Len(t) > Capacity
        BY <1>0, <2>2, <2>5
      <4>2. Len(log) # 0
        BY <1>0, <4>1
      <4>3. QED
        BY <4>1, <4>2
    <3>2. log' = Tail(t)
      BY <2>1, <3>1 DEF Device!Recent
    <3>3. Tail(t) = Append(Tail(log), p)
      BY <1>0, <3>1, HeadTailAppend
    <3>4. Tail(log) \in Seq(Seq(Text)) /\ t[1] \in Seq(Text)
      <4>1. Tail(log) \in Seq(Seq(Text))
        BY <1>0, <3>1, HeadTailProperties
      <4>2. 1 \in 1 .. Len(t)
        BY <1>0, <2>2
      <4> HIDE DEF t
      <4>3. t[1] \in Seq(Text)
        BY <2>2, <4>2, ElementOfSeq
      <4>4. QED
        BY <4>1, <4>3
    <3>5. Concatenation(t) = t[1] \o Concatenation(Tail(t))
      <4> HIDE DEF t
      <4> QED BY <2>2, ConcatenationTail
    <3>6. Concatenation(Tail(t)) = Concatenation(Tail(log)) \o p
      BY <2>1, <3>3, <3>4, ConcatenationAppend
    <3>7. Concatenation(Tail(log)) \in Seq(Text)
      BY <3>4, ConcatenationIs
    <3>8. Len(log') = Capacity
      <4> HIDE DEF t
      <4>1. Len(Tail(t)) = Len(t) - 1
        BY <2>2, HeadTailProperties
      <4>2. QED
        BY <1>0, <2>2, <3>1, <3>2, <4>1
    <3>9. Stored' = Concatenation(Tail(t))
      BY <3>2 DEF Stored
    <3> HIDE DEF t
    <3>10. Stored \o p = t[1] \o Stored' /\ Stored' = Concatenation(Tail(log)) \o p
      BY <2>3, <3>5, <3>6, <3>9
    <3>11. \E x, y \in Seq(Text) : Stored \o p = x \o Stored' /\ Stored' = y \o p
      BY <3>4, <3>7, <3>10
    <3>12. QED
      BY <2>1, <3>1, <3>8, <3>11 DEF p
  <2>6. QED
    BY <2>4, <2>5
<1>4. QED
  BY <1>1, <1>2, <1>3

(* The start.                                                              *)
LEMMA InitStore == Init => StoreInv /\ LineInv
<1> SUFFICES ASSUME Init PROVE StoreInv /\ LineInv
  OBVIOUS
<1>1. StoreTypes
  BY InitStream DEF StreamInv
<1>2. Len(log) <= Capacity
  <2>1. CASE device
    BY <2>1, ProtocolAssumption DEF Init
  <2>2. CASE ~device
    BY <2>2, ProtocolAssumption DEF Init
  <2>3. QED
    BY <2>1, <2>2
<1>3. written = <<>> \o (Stored \o partial) /\ <<>> \in Seq(Text)
  <2>1. Stored \in Seq(Text) /\ partial = <<>> /\ written = Stored
    BY <1>1, StoredParts DEF Init, StoreTypes, Stored
  <2>2. Stored \o <<>> = Stored /\ <<>> \o Stored = Stored
    BY <2>1, ConcatEmptySeq
  <2>3. QED
    BY <2>1, <2>2
<1>4. StoreInv
  BY <1>2, <1>3 DEF StoreInv
<1>5. LineInv
  BY DEF Init, LineInv, Answered
<1>6. QED
  BY <1>4, <1>5

(* The store after a write, step by step.                                  *)
LEMMA WriteStore ==
  ASSUME StreamInv, StoreInv, UNCHANGED <<device, aborts>>, pc \in {"idle", "recv"},
         NEW bytes \in Seq(Text), FwriteFlush(bytes)
  PROVE  StoreInv'
<1>0. \A u, s, p \in Seq(Text) : (u \o (s \o p)) \o bytes = u \o (s \o (p \o bytes))
  BY Regroup, Zenon
<1>1. StoreTypes /\ FileShape /\ Len(log) <= Capacity /\ StoreTypes'
  BY FlushKeeps DEF StreamInv, StoreInv
<1>2. Len(log) \in Nat /\ Capacity \in Nat \ {0}
  BY <1>1, LenProperties, ProtocolAssumption DEF StoreTypes
<1>3. CASE bytes = <<>>
  <2>1. UNCHANGED <<log, partial, written>>
    <3>1. written \o <<>> = written
      BY <1>1, ConcatEmptySeq DEF StoreTypes
    <3>2. QED
      BY <1>3, <3>1 DEF FwriteFlush, store
  <2>2. QED
    BY <2>1, KeptStore DEF StoreInv
<1>4. CASE bytes # <<>>
  <2>1. Len(log') <= Capacity
    <3>1. CASE device
      <4>1. bytes[Len(bytes)] = NL => log' = Device!Recent(Append(log, partial \o bytes))
            /\ Append(log, partial \o bytes) \in Seq(Seq(Text))
        BY <1>1, <1>4, <3>1, FlushDevice
      <4>2. bytes[Len(bytes)] # NL => log' = log
        BY <1>1, <1>4, <3>1, FlushDevice
      <4>3. ASSUME bytes[Len(bytes)] = NL PROVE Len(log') <= Capacity
        <5> DEFINE p == partial \o bytes
                   t == Append(log, p)
        <5>1. t \in Seq(Seq(Text)) /\ Len(t) = Len(log) + 1 /\ t # <<>> /\ log' = Device!Recent(t)
          <6>1. p \in Seq(Text) /\ log \in Seq(Seq(Text))
            BY <1>1, <1>4, <3>1, FlushDevice DEF StoreTypes
          <6>2. log' = Device!Recent(t)
            BY <4>1, <4>3
          <6> HIDE DEF p
          <6>3. t \in Seq(Seq(Text)) /\ Len(t) = Len(log) + 1 /\ t # <<>>
            BY <6>1, AppendProperties
          <6>4. QED
            BY <6>2, <6>3
        <5> HIDE DEF t, p
        <5>2. Len(Tail(t)) = Len(t) - 1
          BY <5>1, HeadTailProperties
        <5>3. QED
          BY <1>1, <1>2, <5>1, <5>2 DEF Device!Recent
      <4>4. QED
        BY <1>1, <4>2, <4>3
    <3>2. CASE ~device
      <4>1. PICK c : log' = <<c>>
        BY <1>1, <1>4, <3>2, FlushFile
      <4>2. QED
        BY <1>2, <4>1
    <3>3. QED
      BY <3>1, <3>2
  <2>2. ASSUME aborts = 0
        PROVE  \E u \in Seq(Text) : /\ written' = u \o (Stored' \o partial')
                                    /\ u = <<>> \/ (device /\ Len(log') = Capacity)
    <3>1. PICK u \in Seq(Text) : /\ written = u \o (Stored \o partial)
                                 /\ u = <<>> \/ (device /\ Len(log) = Capacity)
      BY <2>2 DEF StoreInv
    <3>2. AtRest
      BY <2>2 DEF StreamInv, RestInv
    <3>3. Stored \in Seq(Text) /\ partial \in Seq(Text)
      BY <1>1, StoredParts DEF StoreTypes
    <3>4. written' = u \o (Stored \o (partial \o bytes))
      <4>1. written' = written \o bytes
        BY <1>4 DEF FwriteFlush
      <4>2. (u \o (Stored \o partial)) \o bytes = u \o (Stored \o (partial \o bytes))
        BY <1>0, <3>3
      <4>3. QED
        BY <3>1, <4>1, <4>2
    <3>5. CASE ~device
      <4>1. Stored' = Stored \o bytes /\ partial' = <<>> /\ partial = <<>>
        BY <1>1, <1>4, <3>2, <3>5, FlushStored
      <4>2. <<>> \o bytes = bytes
        BY ConcatEmptySeq
      <4>3. (Stored \o bytes) \o <<>> = Stored \o bytes
        <5>1. Stored \o bytes \in Seq(Text)
          BY <3>3, ConcatProperties
        <5>2. QED
          BY <5>1, ConcatEmptySeq
      <4>4. written' = u \o (Stored' \o partial')
        BY <3>4, <4>1, <4>2, <4>3
      <4>5. QED
        BY <3>1, <3>5, <4>4
    <3>6. CASE device /\ bytes[Len(bytes)] # NL
      <4>1. log' = log /\ partial' = partial \o bytes
        BY <1>1, <1>4, <3>6, FlushStored
      <4>2. Stored' = Stored
        BY <4>1, KeptStore
      <4>3. QED
        BY <3>1, <3>4, <4>1, <4>2
    <3>7. CASE device /\ bytes[Len(bytes)] = NL
      <4> DEFINE p == partial \o bytes
      <4>1. /\ partial' = <<>> /\ p \in Seq(Text)
            /\ \/ /\ Len(log) < Capacity /\ Stored' = Stored \o p
               \/ /\ Len(log) = Capacity /\ Len(log') = Capacity
                  /\ \E x \in Seq(Text) : Stored \o p = x \o Stored'
        BY <1>1, <1>4, <3>7, FlushStored
      <4>2. written' = u \o (Stored \o p)
        BY <3>4
      <4> HIDE DEF p
      <4>3. Stored' \in Seq(Text) /\ Stored' \o partial' = Stored'
        <5>1. Stored' \in Seq(Text)
          <6>1. log' \in Seq(Seq(Text))
            BY <1>1 DEF StoreTypes
          <6>2. QED
            BY <6>1, ConcatenationIs DEF Stored
        <5>2. QED
          BY <4>1, <5>1, ConcatEmptySeq
      <4>4. CASE Len(log) < Capacity /\ Stored' = Stored \o p
        <5>1. u = <<>>
          BY <1>2, <3>1, <4>4
        <5>2. QED
          BY <4>2, <4>3, <4>4, <5>1
      <4>5. CASE Len(log) = Capacity /\ Len(log') = Capacity
                 /\ \E x \in Seq(Text) : Stored \o p = x \o Stored'
        <5>1. PICK x \in Seq(Text) : Stored \o p = x \o Stored'
          BY <4>5
        <5>2. u \o x \in Seq(Text)
          BY ConcatProperties
        <5> DEFINE s == Stored'
        <5>3. s \in Seq(Text)
          BY <4>3
        <5> HIDE DEF s
        <5>4. (u \o x) \o s = u \o (x \o s)
          BY <5>3, ConcatAssociative, SMTT(30)
        <5>5. written' = (u \o x) \o (Stored' \o partial')
          BY <4>2, <4>3, <5>1, <5>4 DEF s
        <5>6. QED
          BY <3>7, <4>5, <5>2, <5>5
      <4>6. QED
        BY <4>1, <4>4, <4>5
    <3>8. QED
      BY <3>5, <3>6, <3>7
  <2>3. QED
    BY <2>1, <2>2 DEF StoreInv
<1>5. QED
  BY <1>3, <1>4

\* The session has its line in the store, and answers with all of it.
Replying == (pc \in {"rewind", "reply"} \/ Answered) /\ seek = NoSeek

(* The other steps leave the store alone, unless they fail.                *)
LEMMA OtherSteps ==
  ASSUME StreamInv, UNCHANGED device,
         \/ step_back \/ flush_fails \/ recv_seek \/ recv_seek_fails \/ recv_fails
         \/ rewind \/ fseek \/ fill \/ read_fails \/ send \/ send_fails
         \/ sigpipe \/ reply_done \/ close \/ Over \/ UNCHANGED vars
  PROVE  /\ UNCHANGED <<log, written>>
         /\ \/ aborts' # 0
            \/ /\ UNCHANGED <<partial, aborts, sent, own>>
               /\ pc' = "recv" => pc = "recv" /\ input' = input
               /\ Replying' => Replying
<1> USE DEF store, session, counts
<1>0. /\ aborts \in Nat /\ MaxAborts \in Nat /\ pc \in Labels
      /\ pc = "recv" => seek = NoSeek /\ ~ok
      /\ pc = "reply" => ~ok
      /\ pc = "fseek" => seek # NoSeek
  BY Bounds DEF StreamInv, SessionTypes, Phases
<1>1. CASE flush_fails
  BY <1>0, <1>1 DEF flush_fails, Device!FailedWrite
<1>2. CASE read_fails \/ send_fails
  BY <1>0, <1>2 DEF read_fails, send_fails
<1>3. CASE step_back
  BY <1>3 DEF step_back, Replying, Answered
<1>4. CASE recv_seek
  BY <1>0, <1>4 DEF recv_seek, Device!SeekTo, SeekTo, NoSeek, Replying, Answered
<1>5. CASE recv_seek_fails \/ recv_fails
  BY <1>0, <1>5 DEF recv_seek_fails, recv_fails, Replying, Answered
<1>6. CASE rewind \/ fseek
  BY <1>0, <1>6 DEF rewind, fseek, Replying, Answered
<1>7. CASE fill
  BY <1>7 DEF fill, Device!Read, Replying, Answered
<1>8. CASE send
  BY <1>8 DEF send, CanSend, Replying, Answered
<1>9. CASE reply_done
  BY <1>9 DEF reply_done, Replying, Answered
<1>10. CASE sigpipe \/ close
  BY <1>10 DEF sigpipe, close, Replying, Answered
<1>11. CASE Over \/ UNCHANGED vars
  BY <1>11 DEF Over, vars, Replying, Answered
<1>12. QED
  BY <1>1, <1>2, <1>3, <1>4, <1>5, <1>6, <1>7, <1>8, <1>9, <1>10, <1>11

(* So they keep the two invariants.                                        *)
LEMMA OtherKeep ==
  ASSUME StoreInv, LineInv, UNCHANGED <<device, log, written>>,
         \/ aborts' # 0
         \/ /\ UNCHANGED <<partial, aborts, sent, own>>
            /\ pc' = "recv" => pc = "recv" /\ input' = input
            /\ Replying' => Replying
  PROVE  StoreInv' /\ LineInv'
<1>1. Stored' = Stored
  BY KeptStore
<1>2. CASE aborts' # 0
  BY <1>2 DEF StoreInv, LineInv
<1>3. CASE aborts' = 0
  <2>1. /\ UNCHANGED <<partial, aborts, sent, own>> /\ aborts = 0
        /\ pc' = "recv" => pc = "recv" /\ input' = input
        /\ Replying' => Replying
    BY <1>3
  <2>2. StoreInv'
    BY <1>1, <2>1 DEF StoreInv
  <2>3. Delivered => Delivered'
    BY <1>1, <2>1 DEF Delivered
  <2>4. LineInv'
    <3> SUFFICES ASSUME NUL \notin Range(sent)
                 PROVE  /\ pc' = "recv" =>
                             /\ own \o input' = sent
                             /\ \E v \in Seq(Text) : (IF device THEN partial ELSE Stored) = v \o own
                        /\ Replying' => Delivered'
      BY <1>1, <2>1 DEF LineInv, Replying
    <3>1. /\ pc = "recv" =>
               /\ own \o input = sent
               /\ \E v \in Seq(Text) : (IF device THEN partial ELSE Stored) = v \o own
          /\ Replying => Delivered
      BY <2>1 DEF LineInv, Replying
    <3>2. QED
      BY <2>1, <2>3, <3>1
  <2>5. QED
    BY <2>2, <2>4
<1>4. QED
  BY <1>2, <1>3

(* A session begins.                                                       *)
LEMMA BeginLine ==
  ASSUME StreamInv, StoreInv, UNCHANGED device, NEW m \in Messages, begin(m)
  PROVE  StoreInv' /\ LineInv'
<1>1. /\ UNCHANGED <<log, partial, written, aborts>> /\ pc' = "recv"
      /\ input' = m /\ sent' = m /\ own' = <<>>
  BY DEF begin, store
<1>2. Stored' = Stored
  BY <1>1, KeptStore
<1>3. StoreInv'
  BY <1>1, <1>2 DEF StoreInv
<1>4. <<>> \o m = m
  <2>1. m \in Seq(Bytes)
    BY TextAssumption
  <2>2. QED
    BY <2>1, ConcatEmptySeq
<1>5. \A v \in Seq(Text) : v \o <<>> = v
  BY ConcatEmptySeq
<1>6. partial \in Seq(Text) /\ Stored \in Seq(Text)
  BY StoredParts DEF StreamInv, StoreTypes
<1>7. \E v \in Seq(Text) : (IF device THEN partial ELSE Stored) = v \o <<>>
  BY <1>5, <1>6
<1>8. LineInv'
  <2>1. own' \o input' = sent'
    BY <1>1, <1>4
  <2>2. \E v \in Seq(Text) : (IF device' THEN partial' ELSE Stored') = v \o own'
    BY <1>1, <1>2, <1>7
  <2>3. QED
    BY <1>1, <2>1, <2>2 DEF LineInv, Answered
<1>9. QED
  BY <1>3, <1>8

(* A line without a zero byte is taken from the client as it is.           *)
LEMMA LineTaken ==
  ASSUME SessionTypes, input # <<>>, NUL \notin Range(sent), own \o input = sent
  PROVE  LET text == CString(Fgets(input))
         IN  /\ text \in Seq(Text) /\ text # <<>> /\ AfterFgets(input) \in Seq(Bytes)
             /\ own \o text \in Seq(Text)
             /\ (own \o text) \o AfterFgets(input) = sent
<1> DEFINE text == Fgets(input)
           rest == AfterFgets(input)
<1>1. input \in Seq(Bytes) /\ own \in Seq(Text) /\ sent \in Seq(Bytes)
  BY DEF SessionTypes
<1>2. /\ text \in Seq(Bytes) /\ rest \in Seq(Bytes) /\ text \o rest = input
      /\ Len(text) = FgetsLen(input) /\ FgetsLen(input) \in 1 .. Len(input) /\ Len(input) \in Nat
  BY <1>1, FgetsSplits, LenProperties
<1> HIDE DEF text, rest
<1>3. own \in Seq(Bytes)
  <2>1. Len(own) \in Nat /\ DOMAIN own = 1 .. Len(own) /\ \A i \in 1 .. Len(own) : own[i] \in Text
    BY <1>1, LenProperties, ElementOfSeq
  <2>2. \A i \in 1 .. Len(own) : own[i] \in Bytes
    BY <2>1 DEF Text
  <2>3. own = [i \in 1 .. Len(own) |-> own[i]]
    BY <1>1, <2>1
  <2>4. QED
    BY <2>1, <2>2, <2>3
<1>4. (own \o text) \o rest = sent
  <2>1. own \in Seq(Bytes) /\ text \in Seq(Bytes) /\ rest \in Seq(Bytes)
    BY <1>2, <1>3
  <2>2. (own \o text) \o rest = own \o (text \o rest)
    BY <2>1, ConcatAssociative, SMTT(30)
  <2>3. QED
    BY <1>2, <2>2
<1>5. \A i \in 1 .. Len(text) : text[i] # NUL
  <2> SUFFICES ASSUME NEW i \in 1 .. Len(text) PROVE text[i] # NUL
    OBVIOUS
  <2> DEFINE a == own \o text
             j == Len(own) + i
  <2>1. a \in Seq(Bytes) /\ Len(a) = Len(own) + Len(text) /\ Len(own) \in Nat /\ Len(text) \in Nat
        /\ \A k \in 1 .. Len(own) + Len(text) : a[k] = IF k <= Len(own) THEN own[k] ELSE text[k - Len(own)]
    BY <1>2, <1>3, ConcatProperties, LenProperties
  <2> HIDE DEF a
  <2>2. /\ Len(sent) = Len(a) + Len(rest) /\ Len(rest) \in Nat /\ DOMAIN sent = 1 .. Len(sent)
        /\ \A k \in 1 .. Len(a) + Len(rest) : sent[k] = IF k <= Len(a) THEN a[k] ELSE rest[k - Len(a)]
    <3>1. a \o rest = sent
      BY <1>4 DEF a
    <3>2. a \in Seq(Bytes) /\ rest \in Seq(Bytes)
      BY <1>2, <2>1
    <3> DEFINE c == a \o rest
    <3>3. /\ c \in Seq(Bytes) /\ Len(c) = Len(a) + Len(rest)
          /\ \A k \in 1 .. Len(a) + Len(rest) : c[k] = IF k <= Len(a) THEN a[k] ELSE rest[k - Len(a)]
      BY <3>2, ConcatProperties, Zenon
    <3>4. Len(rest) \in Nat /\ DOMAIN sent = 1 .. Len(sent)
      BY <1>1, <3>2, LenProperties
    <3>5. c = sent
      BY <3>1
    <3> HIDE DEF c
    <3>6. QED
      BY <3>3, <3>4, <3>5
  <2>3. j \in 1 .. Len(a) /\ ~(j <= Len(own)) /\ j - Len(own) = i /\ j <= Len(a)
        /\ j \in 1 .. Len(a) + Len(rest) /\ j \in DOMAIN sent
    BY <2>1, <2>2
  <2> HIDE DEF j
  <2>4. sent[j] = a[j] /\ a[j] = text[i]
    BY <2>1, <2>2, <2>3
  <2>5. sent[j] \in Range(sent)
    BY <2>3 DEF Range
  <2>6. QED
    BY <2>4, <2>5
<1>6. CString(text) = text
  <2>1. DOMAIN text = 1 .. Len(text)
    BY <1>2, LenProperties
  <2>2. QED
    BY <1>5, <2>1, CStringOfText
<1>7. text \in Seq(Text)
  BY <1>2, <1>6, CStringIsText
<1>8. text # <<>>
  BY <1>2, EmptySeq
<1>9. own \o text \in Seq(Text)
  BY <1>1, <1>7, ConcatProperties
<1>10. QED
  BY <1>2, <1>4, <1>6, <1>7, <1>8, <1>9 DEF text, rest

(* The last byte of a sequence that ends with another.                     *)
LEMMA LastOfConcat ==
  ASSUME NEW B, NEW a \in Seq(B), NEW b \in Seq(B), b # <<>>
  PROVE  a \o b # <<>> /\ Last(a \o b) = b[Len(b)]
<1> DEFINE c == a \o b
<1>1. /\ c \in Seq(B) /\ Len(c) = Len(a) + Len(b) /\ Len(a) \in Nat /\ Len(b) \in Nat \ {0}
      /\ \A i \in 1 .. Len(a) + Len(b) : c[i] = IF i <= Len(a) THEN a[i] ELSE b[i - Len(a)]
  BY ConcatProperties, LenProperties, EmptySeq
<1> HIDE DEF c
<1>2. Len(c) \in 1 .. Len(a) + Len(b) /\ ~(Len(c) <= Len(a)) /\ Len(c) - Len(a) = Len(b) /\ Len(c) # 0
  BY <1>1
<1>3. c[Len(c)] = b[Len(b)] /\ c # <<>>
  BY <1>1, <1>2, EmptySeq
<1>4. QED
  BY <1>3 DEF Last, c

(* A chunk of the line goes to the store.                                  *)
LEMMA WriteLine ==
  ASSUME StreamInv, StoreInv, LineInv, UNCHANGED device, recv_write
  PROVE  LineInv'
<1> DEFINE text == CString(Fgets(input))
           rest == AfterFgets(input)
<1>1. /\ pc = "recv" /\ input # <<>> /\ FwriteFlush(text)
      /\ own' = own \o text /\ input' = rest
      /\ \E ends \in EndsLine(text) : pc' = IF ends THEN "rewind" ELSE "recv"
      /\ UNCHANGED <<aborts, sent, seek, ok>>
  BY DEF recv_write, counts
<1> SUFFICES ASSUME aborts = 0, NUL \notin Range(sent)
             PROVE  /\ pc' = "recv" =>
                         /\ own' \o input' = sent
                         /\ \E v \in Seq(Text) : (IF device THEN partial' ELSE Stored') = v \o own'
                    /\ pc' = "rewind" => Delivered'
  BY <1>1 DEF LineInv, Answered
<1>2. /\ StoreTypes /\ SessionTypes /\ FileShape /\ Len(log) <= Capacity /\ AtRest
  BY <1>1 DEF StreamInv, StoreInv, RestInv
<1>3. PICK v \in Seq(Text) : (IF device THEN partial ELSE Stored) = v \o own
  BY <1>1 DEF LineInv
<1>4. /\ text \in Seq(Text) /\ text # <<>> /\ rest \in Seq(Bytes)
      /\ own \o text \in Seq(Text) /\ (own \o text) \o rest = sent /\ own \in Seq(Text)
  BY <1>1, <1>2, LineTaken DEF LineInv, SessionTypes
<1> HIDE DEF text, rest
<1>5. pc' = IF text[Len(text)] = NL THEN "rewind" ELSE "recv"
  BY <1>1, <1>4 DEF EndsLine
<1>6. own' \o input' = sent /\ own' \in Seq(Text)
  BY <1>1, <1>4
<1>7. (v \o own) \o text = v \o own'
  <2>1. v \in Seq(Text) /\ own \in Seq(Text) /\ text \in Seq(Text)
    BY <1>4
  <2>2. (v \o own) \o text = v \o (own \o text)
    BY <2>1, ConcatAssociative, SMTT(30)
  <2>3. QED
    BY <1>1, <2>2
<1>8. own' # <<>> /\ Last(own') = text[Len(text)]
  BY <1>1, <1>4, LastOfConcat
<1>9. ASSUME text[Len(text)] = NL, \E x \in Seq(Text) : Stored' = x \o own' PROVE Delivered'
  <2>1. sent' = own' \o rest
    BY <1>1, <1>4
  <2>2. QED
    BY <1>4, <1>8, <1>9, <2>1 DEF Delivered
<1>10. CASE ~device
  <2>1. Stored' = Stored \o text
    BY <1>1, <1>2, <1>4, <1>10, FlushStored
  <2>2. Stored' = v \o own'
    BY <1>3, <1>7, <1>10, <2>1
  <2>3. QED
    BY <1>5, <1>6, <1>9, <1>10, <2>2
<1>11. CASE device /\ text[Len(text)] # NL
  <2>1. partial' = partial \o text
    BY <1>1, <1>2, <1>4, <1>11, FlushStored
  <2>2. partial' = v \o own'
    BY <1>3, <1>7, <1>11, <2>1
  <2>3. QED
    BY <1>5, <1>6, <1>11, <2>2
<1>12. CASE device /\ text[Len(text)] = NL
  <2>1. partial \o text = v \o own'
    BY <1>3, <1>7, <1>12
  <2>2. PICK y \in Seq(Text) : Stored' = y \o (partial \o text)
    <3>1. \/ Stored' = Stored \o (partial \o text)
          \/ \E x, y \in Seq(Text) : Stored' = y \o (partial \o text)
      BY <1>1, <1>2, <1>4, <1>12, FlushStored
    <3>2. Stored \in Seq(Text)
      BY <1>2, StoredParts DEF StoreTypes
    <3>3. QED
      BY <3>1, <3>2
  <2>3. y \o (v \o own') = (y \o v) \o own' /\ y \o v \in Seq(Text)
    <3> DEFINE o == own'
    <3>1. y \in Seq(Text) /\ v \in Seq(Text) /\ o \in Seq(Text)
      BY <1>6
    <3> HIDE DEF o
    <3>2. y \o (v \o o) = (y \o v) \o o /\ y \o v \in Seq(Text)
      BY <3>1
    <3>3. QED
      BY <3>2 DEF o
  <2>4. \E x \in Seq(Text) : Stored' = x \o own'
    BY <2>1, <2>2, <2>3
  <2>5. QED
    BY <1>5, <1>9, <1>12, <2>4
<1>13. QED
  BY <1>10, <1>11, <1>12

(* All steps together.                                                     *)
LEMMA NextStore == StreamInv /\ StoreInv /\ LineInv /\ [Next]_vars => StoreInv' /\ LineInv'
<1> SUFFICES ASSUME StreamInv, StoreInv, LineInv, [Next]_vars PROVE StoreInv' /\ LineInv'
  OBVIOUS
<1>0. UNCHANGED device
  BY DEF Next, vars
<1>1. CASE \E m \in Messages : begin(m)
  BY <1>0, <1>1, BeginLine
<1>2. CASE clock_write
  <2>1. /\ FwriteFlush(<<T, NL>>) /\ UNCHANGED aborts /\ pc = "idle" /\ pc' = "idle"
    BY <1>2 DEF clock_write
  <2>2. <<T, NL>> \in Seq(Text)
    BY ProtocolAssumption DEF Text, Bytes
  <2>3. StoreInv'
    BY <1>0, <2>1, <2>2, WriteStore
  <2>4. LineInv'
    BY <2>1 DEF LineInv, Answered
  <2>5. QED
    BY <2>3, <2>4
<1>3. CASE recv_write
  <2>1. /\ FwriteFlush(CString(Fgets(input))) /\ UNCHANGED aborts /\ pc = "recv" /\ input # <<>>
    BY <1>3 DEF recv_write, counts
  <2>2. CString(Fgets(input)) \in Seq(Text)
    BY <2>1, ChunkIs DEF StreamInv
  <2>3. StoreInv'
    BY <1>0, <2>1, <2>2, WriteStore
  <2>4. QED
    BY <1>0, <1>3, <2>3, WriteLine
<1>4. CASE \/ step_back \/ flush_fails \/ recv_seek \/ recv_seek_fails \/ recv_fails
           \/ rewind \/ fseek \/ fill \/ read_fails \/ send \/ send_fails
           \/ sigpipe \/ reply_done \/ close \/ Over \/ UNCHANGED vars
  <2>1. /\ UNCHANGED <<log, written>>
        /\ \/ aborts' # 0
           \/ /\ UNCHANGED <<partial, aborts, sent, own>>
              /\ pc' = "recv" => pc = "recv" /\ input' = input
              /\ Replying' => Replying
    BY <1>0, <1>4, OtherSteps
  <2>2. QED
    BY <1>0, <2>1, OtherKeep
<1>5. QED
  BY <1>1, <1>2, <1>3, <1>4 DEF Next, server_protocol

(* The invariants hold always.                                             *)
LEMMA StoreInvariant == Spec => [](StreamInv /\ StoreInv /\ LineInv)
<1>1. Init => StreamInv /\ StoreInv /\ LineInv
  BY InitStream, InitStore
<1>2. StreamInv /\ StoreInv /\ LineInv /\ [Next]_vars => (StreamInv /\ StoreInv /\ LineInv)'
  BY NextStream, NextStore
<1>3. QED
  BY <1>1, <1>2, PTL DEF Spec

(* The writes of all sessions and of the clock end up in the store in      *)
(* their order, each once and whole, and only a full ring drops the oldest *)
(* (output_file is written by server_protocol and by the clock thread).    *)
THEOREM StoreIsKept == Spec => []StoreIsWhatWasWritten
<1>1. StreamInv /\ StoreInv => StoreIsWhatWasWritten
  <2> SUFFICES ASSUME StreamInv, StoreInv, aborts = 0
               PROVE  /\ IsSuffix(Stored \o partial, written)
                      /\ (device /\ Len(log) = Capacity) \/ Stored \o partial = written
    BY DEF StoreIsWhatWasWritten
  <2> DEFINE s == Stored \o partial
  <2>1. PICK u \in Seq(Text) : written = u \o s /\ (u = <<>> \/ (device /\ Len(log) = Capacity))
    BY DEF StoreInv
  <2>2. s \in Seq(Text)
    <3>1. Stored \in Seq(Text) /\ partial \in Seq(Text)
      BY StoredParts DEF StreamInv, StoreTypes
    <3>2. QED
      BY <3>1, ConcatProperties
  <2> HIDE DEF s
  <2>3. IsSuffix(s, written)
    BY <2>1, <2>2, EndIsSuffix
  <2>4. u = <<>> => s = written
    BY <2>1, <2>2, ConcatEmptySeq
  <2>5. QED
    BY <2>1, <2>3, <2>4 DEF s
<1>2. QED
  BY <1>1, StoreInvariant, PTL

(* The line a client sent, in however many chunks server_protocol reads    *)
(* and writes it, is the end of its reply.                                 *)
THEOREM LinesAreLast == Spec => []LineIsLast
<1>1. StreamInv /\ LineInv => LineIsLast
  <2> SUFFICES ASSUME StreamInv, LineInv, aborts = 0, Answered, seek = NoSeek,
                      NUL \notin Range(sent)
               PROVE  IsSuffix(own, reply) /\ IsPrefix(own, sent) /\ Last(own) = NL
    BY DEF LineIsLast
  <2>1. Delivered
    BY DEF LineInv
  <2>2. own \in Seq(Text) /\ own \in Seq(Bytes) /\ Stored \in Seq(Text)
    <3>1. own \in Seq(Text) /\ Stored \in Seq(Text)
      BY StoredParts DEF StreamInv, StoreTypes, SessionTypes
    <3>2. Text \subseteq Bytes
      BY DEF Text
    <3>3. own \in Seq(Bytes)
      BY <3>1, <3>2
    <3>4. QED
      BY <3>1, <3>3
  <2>3. reply = Stored
    <3>1. reply = SubSeq(Stored, 0 + 1, Len(Stored))
      BY DEF StreamInv, ReplyInv, First
    <3>2. QED
      BY <2>2, <3>1, SubSeqFull
  <2>4. PICK v \in Seq(Text) : Stored = v \o own
    BY <2>1 DEF Delivered
  <2>5. PICK w \in Seq(Bytes) : sent = own \o w
    BY <2>1 DEF Delivered
  <2>6. IsSuffix(own, reply)
    BY <2>2, <2>3, <2>4, EndIsSuffix
  <2>7. IsPrefix(own, sent)
    BY <2>2, <2>5, BeginIsPrefix
  <2>8. QED
    BY <2>1, <2>6, <2>7 DEF Delivered
<1>2. QED
  BY <1>1, StoreInvariant, PTL
-----------------------------------------------------------------------------
(* Positions.                                                              *)

\* No position is negative: a stream that knows its offset is where the
\* descriptor is, unless the ioctl has just moved that, and has read ahead no
\* more than lies before it; one that does not has read nothing ahead, except
\* the end of the store, which the next fgets takes as a whole.
PosInv ==
  /\ f_pos[Server] >= 0
  /\ stream.offset >= Unknown
  /\ pc = "reply" /\ ~stream.eof => stream.offset >= 0
  /\ pc = "reply" /\ stream.eof => ~HasLine(stream.unread)
  /\ stream.offset = Unknown => stream.unread = <<>> \/ pc \in {"reply", "killed"}
  /\ stream.offset # Unknown =>
       /\ Len(stream.unread) <= stream.offset
       /\ f_pos[Server] = stream.offset \/ pc = "fseek"

(* The start.                                                              *)
LEMMA InitPos == Init => PosInv
  BY DEF Init, PosInv, Unknown

(* What fgets leaves of a text without a line.                             *)
LEMMA NothingLeft ==
  ASSUME NEW s \in Seq(Text), s # <<>>, ~HasLine(s)
  PROVE  AfterFgets(s) = <<>>
<1>1. Len(s) \in Nat \ {0} /\ DOMAIN s = 1 .. Len(s) /\ LineSize \in Nat \ {0}
  BY LenProperties, EmptySeq, ProtocolAssumption
<1>2. Len(s) < LineSize /\ \A i \in 1 .. Len(s) : s[i] # NL
  BY <1>1 DEF HasLine
<1>3. {i \in DOMAIN s : s[i] = NL \/ i = LineSize \/ i = Len(s)} = {Len(s)}
  BY <1>1, <1>2
<1>4. FgetsLen(s) = Len(s)
  <2> DEFINE n == Len(s)
  <2>1. n \in Nat
    BY <1>1
  <2> HIDE DEF n
  <2>2. (CHOOSE i \in {n} : \A j \in {n} : i <= j) = n
    BY <2>1
  <2>3. FgetsLen(s) = CHOOSE i \in {n} : \A j \in {n} : i <= j
    BY <1>3 DEF FgetsLen, n
  <2>4. QED
    BY <2>2, <2>3 DEF n
<1>5. AfterFgets(s) = SubSeq(s, Len(s) + 1, Len(s))
  BY <1>4 DEF AfterFgets
<1>6. QED
  BY <1>1, <1>5, SubSeqEmpty

(* Reading and sending.                                                    *)
LEMMA ReplyPos ==
  ASSUME StreamInv, PosInv, UNCHANGED device, fill \/ read_fails \/ send \/ send_fails
  PROVE  PosInv'
<1>0. /\ f_pos \in [{Server} -> Int] /\ f_pos[Server] \in Int
      /\ stream = [unread |-> stream.unread, offset |-> stream.offset, eof |-> stream.eof]
      /\ stream.unread \in Seq(Text) /\ stream.offset \in Int /\ Len(stream.unread) \in Nat
      /\ log \in Seq(Seq(Text)) /\ got \in [{Server} -> Seq(Text)] /\ stream.eof \in BOOLEAN
  BY LenProperties DEF StreamInv, StoreTypes
<1>1. CASE fill
  <2> DEFINE bytes == got'[Server]
             n == Len(bytes)
             l == Len(stream.unread)
  <2>1. bytes \in Seq(Text) /\ f_pos'[Server] = f_pos[Server] + n
    BY <1>0, <1>1, ReadIs DEF fill
  <2>2. n \in Nat
    BY <2>1, LenProperties
  <2>3. /\ stream' = [unread |-> stream.unread \o bytes,
                      offset |-> IF bytes = <<>> THEN Unknown ELSE stream.offset + n,
                      eof    |-> bytes = <<>>]
        /\ pc' = "reply" /\ pc = "reply" /\ ~stream.eof /\ ~HasLine(stream.unread)
    BY <1>1 DEF fill
  <2>4. Len(stream.unread \o bytes) = l + n /\ stream.unread \o <<>> = stream.unread
    BY <1>0, <2>1, ConcatProperties, ConcatEmptySeq
  <2>5. l \in Nat /\ l <= stream.offset /\ stream.offset >= 0 /\ f_pos[Server] = stream.offset
    BY <1>0, <2>3 DEF PosInv, Unknown
  <2> HIDE DEF bytes, n, l
  <2>6. CASE bytes = <<>>
    <3>1. stream'.offset = Unknown /\ stream'.eof = TRUE /\ stream'.unread = stream.unread
      BY <2>3, <2>4, <2>6
    <3>2. f_pos'[Server] >= 0
      BY <2>1, <2>2, <2>5, <1>0
    <3>3. ~HasLine(stream.unread)'
      BY <2>3, <3>1
    <3>4. QED
      BY <2>3, <3>1, <3>2, <3>3 DEF PosInv, Unknown
  <2>7. CASE bytes # <<>>
    <3>1. stream'.offset = stream.offset + n /\ stream'.eof = FALSE /\ Len(stream'.unread) = l + n
      BY <2>3, <2>4, <2>7
    <3>2. /\ f_pos'[Server] >= 0 /\ stream'.offset >= 0 /\ f_pos'[Server] = stream'.offset
          /\ Len(stream'.unread) <= stream'.offset
      BY <1>0, <2>1, <2>2, <2>5, <3>1
    <3>3. stream'.offset # Unknown /\ stream'.offset >= Unknown
      BY <1>0, <2>2, <2>5, <3>1 DEF Unknown
    <3>4. QED
      BY <2>3, <3>1, <3>2, <3>3 DEF PosInv
  <2>8. QED
    BY <2>6, <2>7
<1>2. CASE read_fails
  <2>1. stream'.unread = <<>> /\ stream'.offset = Unknown /\ UNCHANGED f_pos /\ pc' = "close"
    BY <1>2 DEF read_fails, store
  <2>2. QED
    BY <1>0, <2>1 DEF PosInv, Unknown
<1>3. CASE send \/ send_fails
  <2> DEFINE rest == AfterFgets(stream.unread)
  <2>1. /\ stream' = [stream EXCEPT !.unread = rest] /\ UNCHANGED f_pos /\ CanSend /\ pc = "reply"
        /\ pc' \in {"reply", "close"}
    BY <1>3 DEF send, send_fails, Flushes, CanSend, store
  <2>2. stream.unread # <<>>
    <3>1. ~HasLine(<<>>)
      BY ProtocolAssumption DEF HasLine
    <3>2. QED
      BY <2>1, <3>1 DEF CanSend
  <2>3. Len(rest) \in Nat /\ Len(rest) <= Len(stream.unread)
    <3>1. /\ Fgets(stream.unread) \in Seq(Text) /\ rest \in Seq(Text)
          /\ Fgets(stream.unread) \o rest = stream.unread
      BY <1>0, <2>2, FgetsSplits
    <3> HIDE DEF rest
    <3>2. Len(stream.unread) = Len(Fgets(stream.unread)) + Len(rest)
      BY <3>1, ConcatProperties
    <3>3. QED
      BY <3>1, <3>2, LenProperties
  <2>4. stream.eof => rest = <<>>
    BY <1>0, <2>1, <2>2, NothingLeft DEF PosInv
  <2>5. ~HasLine(<<>>)
    BY ProtocolAssumption DEF HasLine
  <2>6. stream.offset = Unknown => stream.eof
    BY <1>0, <2>1 DEF PosInv, Unknown
  <2> HIDE DEF rest
  <2>7. stream'.unread = rest /\ stream'.offset = stream.offset /\ stream'.eof = stream.eof
    BY <1>0, <2>1
  <2>8. stream.offset # Unknown => Len(rest) <= stream.offset
    BY <1>0, <2>3 DEF PosInv
  <2>9. QED
    BY <1>0, <2>1, <2>4, <2>5, <2>6, <2>7, <2>8 DEF PosInv
<1>4. QED
  BY <1>1, <1>2, <1>3

(* Writing, and stepping back before it.                                   *)
LEMMA WritePos ==
  ASSUME StreamInv, PosInv, UNCHANGED device,
         step_back \/ clock_write \/ recv_write \/ flush_fails
  PROVE  PosInv'
<1>0. /\ f_pos \in [{Server} -> Int] /\ f_pos[Server] \in Int /\ StoreTypes /\ FileShape
      /\ stream = [unread |-> stream.unread, offset |-> stream.offset, eof |-> stream.eof]
      /\ stream.unread \in Seq(Text) /\ stream.offset \in Int /\ Len(stream.unread) \in Nat
  BY LenProperties DEF StreamInv, StoreTypes
<1>1. CASE step_back
  <2> DEFINE back == f_pos[Server] - Len(stream.unread)
  <2>1. /\ f_pos' = [f_pos EXCEPT ![Server] = back]
        /\ stream' = [stream EXCEPT !.unread = <<>>, !.offset = back]
        /\ pc = "recv" /\ pc' = "recv" /\ stream.unread # <<>>
    BY <1>1 DEF step_back
  <2>2. back \in Nat
    BY <1>0, <2>1 DEF PosInv
  <2> HIDE DEF back
  <2>3. /\ f_pos'[Server] = back /\ Len(stream'.unread) = 0 /\ stream'.unread = <<>>
        /\ stream'.offset = back
    BY <1>0, <2>1
  <2>4. QED
    BY <2>1, <2>2, <2>3 DEF PosInv, Unknown
<1>2. ASSUME NEW bytes \in Seq(Text), FwriteFlush(bytes), pc \in {"idle", "recv"},
             pc' \in {"idle", "recv", "rewind"}
      PROVE  PosInv'
  <2>1. f_pos'[Server] >= 0
    <3>1. CASE bytes = <<>>
      BY <1>2, <3>1 DEF FwriteFlush, store, PosInv
    <3>2. CASE bytes # <<>> /\ device
      BY <1>0, <1>2, <3>2, FlushDevice DEF PosInv
    <3>3. CASE bytes # <<>> /\ ~device
      BY <1>0, <1>2, <3>3, FlushFile
    <3>4. QED
      BY <3>1, <3>2, <3>3
  <2>2. stream'.unread = <<>> /\ stream'.offset = Unknown
    BY <1>0, <1>2 DEF FwriteFlush
  <2>3. QED
    BY <1>2, <2>1, <2>2 DEF PosInv, Unknown
<1>3. CASE clock_write
  <2>1. FwriteFlush(<<T, NL>>) /\ pc = "idle" /\ pc' = "idle"
    BY <1>3 DEF clock_write
  <2>2. <<T, NL>> \in Seq(Text)
    BY ProtocolAssumption DEF Text, Bytes
  <2>3. QED
    BY <1>2, <2>1, <2>2
<1>4. CASE recv_write
  <2>1. /\ FwriteFlush(CString(Fgets(input))) /\ pc = "recv" /\ input # <<>>
        /\ pc' \in {"recv", "rewind"}
    BY <1>4 DEF recv_write
  <2>2. CString(Fgets(input)) \in Seq(Text)
    BY <2>1, ChunkIs DEF StreamInv
  <2>3. QED
    BY <1>2, <2>1, <2>2
<1>5. CASE flush_fails
  <2>1. UNCHANGED <<f_pos, stream>> /\ pc = "recv" /\ pc' \in {"recv", "rewind"}
    BY <1>5 DEF flush_fails, Device!FailedWrite, store
  <2>2. QED
    BY <2>1 DEF PosInv
<1>6. QED
  BY <1>1, <1>3, <1>4, <1>5

(* Moving the position.                                                    *)
LEMMA SeekPos ==
  ASSUME StreamInv, PosInv, UNCHANGED device, recv_seek \/ rewind \/ fseek
  PROVE  PosInv'
<1>0. /\ f_pos \in [{Server} -> Int] /\ f_pos[Server] \in Int
      /\ stream = [unread |-> stream.unread, offset |-> stream.offset, eof |-> stream.eof]
      /\ stream.unread \in Seq(Text) /\ stream.offset \in Int /\ Len(stream.unread) \in Nat
      /\ log \in Seq(Seq(Text))
  BY LenProperties DEF StreamInv, StoreTypes
<1>1. CASE recv_seek
  <2>1. UNCHANGED stream /\ pc = "recv" /\ pc' = "fseek"
    BY <1>1 DEF recv_seek
  <2>2. f_pos'[Server] >= 0
    <3>1. SeekTo[1] < Len(log) /\ SeekTo[2] < Len(log[SeekTo[1] + 1])
          /\ f_pos' = [f_pos EXCEPT ![Server] = Device!Start(SeekTo[1] + 1) + SeekTo[2]]
      BY <1>1 DEF recv_seek, Device!SeekTo
    <3>2. SeekTo[1] \in Nat /\ SeekTo[2] \in Nat
      <4>1. Phases' /\ SessionTypes' /\ seek' = SeekTo
        BY <1>1, SeekStep DEF StreamInv, recv_seek
      <4>2. seek' # NoSeek
        BY <2>1, <4>1 DEF Phases, NoSeek
      <4>3. QED
        BY <4>1, <4>2 DEF SessionTypes, NoSeek
    <3>3. SeekTo[1] + 1 \in DOMAIN log
      BY <1>0, <3>1, <3>2, LenProperties
    <3>4. Device!Start(SeekTo[1] + 1) \in Nat
      BY <1>0, <3>3, StoredParts
    <3>5. QED
      BY <1>0, <3>1, <3>2, <3>4
  <2>3. QED
    BY <2>1, <2>2 DEF PosInv
<1>2. CASE rewind
  <2>1. f_pos' = [f_pos EXCEPT ![Server] = 0] /\ stream' = At(0) /\ pc' = "reply"
    BY <1>2 DEF rewind
  <2>2. /\ f_pos'[Server] = 0 /\ stream'.unread = <<>> /\ Len(stream'.unread) = 0
        /\ stream'.offset = 0 /\ stream'.eof = FALSE
    BY <1>0, <2>1 DEF At
  <2>3. QED
    BY <2>1, <2>2 DEF PosInv, Unknown
<1>3. CASE fseek
  <2>0. pc = "fseek" /\ pc' = "reply" /\ f_pos[Server] >= 0 /\ stream.offset >= Unknown
    BY <1>3 DEF fseek, PosInv
  <2>1. CASE stream.offset = Unknown
    <3>1. stream' = At(f_pos[Server]) /\ UNCHANGED f_pos
      BY <1>3, <2>1 DEF fseek
    <3>2. Len(stream'.unread) = 0 /\ stream'.offset = f_pos[Server] /\ stream'.eof = FALSE
      BY <3>1 DEF At
    <3>3. QED
      BY <1>0, <2>0, <3>1, <3>2 DEF PosInv, Unknown
  <2>2. CASE stream.offset # Unknown
    <3>1. stream' = [stream EXCEPT !.eof = FALSE] /\ f_pos' = [f_pos EXCEPT ![Server] = stream.offset]
      BY <1>3, <2>2 DEF fseek
    <3>2. /\ stream'.unread = stream.unread /\ stream'.offset = stream.offset
          /\ stream'.eof = FALSE /\ f_pos'[Server] = stream.offset
      BY <1>0, <3>1
    <3>3. stream.offset >= 0 /\ Len(stream.unread) <= stream.offset
      BY <1>0, <2>0, <2>2 DEF PosInv, Unknown
    <3>4. QED
      BY <1>0, <2>0, <2>2, <3>2, <3>3 DEF PosInv
  <2>3. QED
    BY <2>1, <2>2
<1>4. QED
  BY <1>1, <1>2, <1>3

(* All steps together.                                                     *)
LEMMA NextPos == StreamInv /\ PosInv /\ [Next]_vars => PosInv'
<1> SUFFICES ASSUME StreamInv, PosInv, [Next]_vars PROVE PosInv'
  OBVIOUS
<1>0. UNCHANGED device
  BY DEF Next, vars
<1>1. CASE fill \/ read_fails \/ send \/ send_fails
  BY <1>0, <1>1, ReplyPos
<1>2. CASE step_back \/ clock_write \/ recv_write \/ flush_fails
  BY <1>0, <1>2, WritePos
<1>3. CASE recv_seek \/ rewind \/ fseek
  BY <1>0, <1>3, SeekPos
<1>4. CASE \/ \E m \in Messages : begin(m)
           \/ recv_seek_fails \/ recv_fails \/ sigpipe \/ reply_done \/ close
           \/ Over \/ UNCHANGED vars
  <2>1. /\ UNCHANGED <<f_pos, stream>>
        /\ \/ pc' = pc
           \/ pc' = "killed"
           \/ pc \notin {"fseek", "reply", "killed"} /\ pc' # "reply"
           \/ stream.unread = <<>> /\ pc = "reply" /\ pc' = "close"
        /\ pc = "fseek" => pc' = "fseek"
    BY <1>4 DEF begin, recv_seek_fails, recv_fails, sigpipe, Flushes, CanSend, reply_done, close,
                Over, vars, store
  <2>2. QED
    BY <2>1 DEF PosInv
<1>5. QED
  BY <1>1, <1>2, <1>3, <1>4 DEF Next, server_protocol

(* The state of server_protocol and of output_file has its types, and no   *)
(* position is negative: a stream never steps back before the first byte,  *)
(* however many calls fail.                                                *)
THEOREM ProtocolTypes == Spec => []TypeOK
<1>1. StreamInv /\ PosInv /\ device \in Builds => TypeOK
  <2> SUFFICES ASSUME StreamInv, PosInv, device \in Builds PROVE TypeOK
    OBVIOUS
  <2>0. StoreTypes /\ SessionTypes
    BY DEF StreamInv
  <2>1. \A s \in Seq(Text) : s \in Seq(Bytes)
    <3>1. Text \subseteq Bytes
      BY DEF Text
    <3>2. QED
      BY <3>1
  <2>2. log \in Seq(Seq(Bytes))
    <3>1. log \in Seq(Seq(Text))
      BY <2>0 DEF StoreTypes
    <3>2. Len(log) \in Nat /\ DOMAIN log = 1 .. Len(log) /\ \A i \in 1 .. Len(log) : log[i] \in Seq(Text)
      BY <3>1, LenProperties, ElementOfSeq
    <3>3. log = [i \in 1 .. Len(log) |-> log[i]]
      BY <3>1, <3>2
    <3>4. \A i \in 1 .. Len(log) : log[i] \in Seq(Bytes)
      BY <2>1, <3>2
    <3>5. QED
      BY <3>2, <3>3, <3>4
  <2>3. /\ partial \in Seq(Bytes) /\ stream.unread \in Seq(Bytes)
        /\ {input, reply, sent, own, written} \subseteq Seq(Bytes)
    BY <2>0, <2>1 DEF StoreTypes, SessionTypes
  <2>4. got \in [{Server} -> Seq(Bytes)] /\ f_pos \in [{Server} -> Nat]
    <3>1. got[Server] \in Seq(Bytes) /\ f_pos[Server] \in Nat
      BY <2>0, <2>1 DEF StoreTypes, PosInv
    <3>2. QED
      BY <2>0, <3>1 DEF StoreTypes
  <2>5. stream.offset \in Nat \cup {Unknown}
    BY <2>0 DEF StoreTypes, PosInv, Unknown
  <2>6. QED
    BY <2>0, <2>2, <2>3, <2>4, <2>5 DEF TypeOK, StoreTypes, SessionTypes
<1>2. Spec => [](device \in Builds)
  <2>1. Init => device \in Builds
    BY DEF Init
  <2>2. device \in Builds /\ [Next]_vars => (device \in Builds)'
    BY DEF Next, vars
  <2>3. QED
    BY <2>1, <2>2, PTL DEF Spec
<1>3. Spec => []PosInv
  BY InitPos, NextPos, StreamInvariant, PTL DEF Spec
<1>4. QED
  BY <1>1, <1>2, <1>3, StreamInvariant, PTL
=============================================================================

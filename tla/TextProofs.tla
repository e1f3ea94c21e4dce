----------------------------- MODULE TextProofs -----------------------------
(***************************************************************************)
(* The normalisations of e-mails agree and the mask covers what it should  *)
(* for e-mails of any length over any bytes; and each thread gets the      *)
(* text of its own number, for any numbers and any number of threads.      *)
(***************************************************************************)
EXTENDS TextFormatting, Induction, SequenceTheorems

LEMMA FirstFacts ==
    ASSUME NEW S, S \subseteq Nat, S # {}
    PROVE  FirstIn(S) \in S /\ \A m \in S : FirstIn(S) <= m
    BY LeastExists DEF FirstIn

LEMMA LastFacts ==
    ASSUME NEW n \in Nat, NEW S, S \subseteq 0 .. n, S # {}
    PROVE  LastIn(S) \in S /\ \A m \in S : m <= LastIn(S)
<1> DEFINE T == {n - k : k \in S}
<1>1. T \subseteq Nat /\ T # {}
  <2>1. \A k \in S : n - k \in Nat
      OBVIOUS
  <2> QED
      BY <2>1
<1>2. FirstIn(T) \in T /\ \A m \in T : FirstIn(T) <= m
  <2> HIDE DEF T
  <2> QED
      BY <1>1, FirstFacts
<1>3. PICK x \in S : FirstIn(T) = n - x
    BY <1>2
<1>4. \A m \in S : n - x <= n - m
    BY <1>2, <1>3
<1>5. \A m \in S : m <= x
    BY <1>4
<1> QED
    BY <1>5 DEF LastIn

\* The part of a string trim keeps is the only one between blanks.
LEMMA TrimFacts ==
    ASSUME NEW s \in Seq(Char), NotBlank(s) # {}
    PROVE  LET f == FirstIn(NotBlank(s))
               l == LastIn(NotBlank(s))
           IN  /\ f \in 1 .. Len(s) /\ l \in 1 .. Len(s) /\ f <= l
               /\ s[f] \notin Blank /\ s[l] \notin Blank
               /\ Within(s) = {<<f, l>>}
               /\ trim(s) = SubSeq(s, f, l)
<1> DEFINE N == NotBlank(s)
           f == FirstIn(N)
           l == LastIn(N)
<1>1. N \subseteq 1 .. Len(s) /\ N \subseteq 0 .. Len(s) /\ N \subseteq Nat /\ Len(s) \in Nat
    BY DEF NotBlank
<1>2. f \in N /\ \A m \in N : f <= m
    BY <1>1, FirstFacts
<1>3. l \in N /\ \A m \in N : m <= l
    BY <1>1, LastFacts
<1> HIDE DEF f, l
<1>4. f \in 1 .. Len(s) /\ l \in 1 .. Len(s) /\ f <= l
    BY <1>1, <1>2, <1>3
<1>5. \A k \in 1 .. Len(s) : k \in N <=> s[k] \notin Blank
    BY DEF NotBlank
<1>6. <<f, l>> \in Within(s)
  <2>1. \A k \in 1 .. f - 1 : s[k] \in Blank
      BY <1>1, <1>2, <1>4, <1>5
  <2>2. \A k \in l + 1 .. Len(s) : s[k] \in Blank
      BY <1>1, <1>3, <1>4, <1>5
  <2> QED
      BY <1>2, <1>3, <1>4, <1>5, <2>1, <2>2 DEF Within
<1>7. ASSUME NEW p \in Within(s) PROVE p = <<f, l>>
  <2>1. p \in (1 .. Len(s)) \X (1 .. Len(s)) /\ p[1] \in N /\ p[2] \in N
      BY <1>5, <1>7 DEF Within
  <2>2. ~(f < p[1])
      BY <1>1, <1>2, <1>4, <1>5, <1>7, <2>1 DEF Within
  <2>3. ~(p[2] < l)
      BY <1>1, <1>3, <1>4, <1>5, <1>7, <2>1 DEF Within
  <2>4. p[1] = f /\ p[2] = l
      BY <1>1, <1>2, <1>3, <2>1, <2>2, <2>3
  <2> QED
      BY <2>1, <2>4
<1>8. trim(s) = SubSeq(s, f, l)
    BY DEF trim, f, l
<1> QED
    BY <1>2, <1>3, <1>4, <1>5, <1>6, <1>7, <1>8 DEF f, l

LEMMA LowerFacts ==
    ASSUME NEW s \in Seq(Char)
    PROVE  /\ toLowercase(s) \in Seq(Char) /\ Len(toLowercase(s)) = Len(s)
           /\ \A k \in 1 .. Len(s) : toLowercase(s)[k] = tolower[s[k]]
           /\ NotBlank(toLowercase(s)) = NotBlank(s)
<1>1. \A k \in 1 .. Len(s) : s[k] \in Char /\ tolower[s[k]] \in Char
    BY EmailAssumption
<1>2. \A k \in 1 .. Len(s) : tolower[s[k]] \in Blank <=> s[k] \in Blank
    BY <1>1, EmailAssumption
<1>3. /\ toLowercase(s) \in Seq(Char) /\ Len(toLowercase(s)) = Len(s)
      /\ DOMAIN toLowercase(s) = 1 .. Len(s) /\ DOMAIN s = 1 .. Len(s)
      /\ \A k \in 1 .. Len(s) : toLowercase(s)[k] = tolower[s[k]]
    BY <1>1 DEF toLowercase
<1> QED
    BY <1>2, <1>3 DEF NotBlank

-----------------------------------------------------------------------------
\* What remains without blanks is what trim keeps.
LEMMA BareIsTrimmed ==
    ASSUME NEW s \in Seq(Char), NotBlank(s) # {}
    PROVE  Bare(s) = {trim(s)}
<1> DEFINE f == FirstIn(NotBlank(s))
           l == LastIn(NotBlank(s))
<1>1. Within(s) = {<<f, l>>} /\ trim(s) = SubSeq(s, f, l)
    BY TrimFacts
<1> HIDE DEF f, l
<1> QED
    BY <1>1 DEF Bare

\* Of an e-mail that is not blank the server's conversion of letters commutes
\* with its trim.
LEMMA KeyIsLowered ==
    ASSUME NEW r \in Seq(Char), NotBlank(r) # {}
    PROVE  Key(r) = toLowercase(trim(r))
<1> DEFINE a == FirstIn(NotBlank(r))
           b == LastIn(NotBlank(r))
           low == toLowercase(r)
           mid == SubSeq(r, a, b)
           key == SubSeq(low, a, b)
<1>1. /\ a \in 1 .. Len(r) /\ b \in 1 .. Len(r) /\ a <= b /\ Len(r) \in Nat
      /\ trim(r) = mid
    BY TrimFacts
<1>2. /\ low \in Seq(Char) /\ Len(low) = Len(r) /\ NotBlank(low) = NotBlank(r)
      /\ \A k \in 1 .. Len(r) : low[k] = tolower[r[k]]
    BY LowerFacts
<1>3. Key(r) = key
    BY <1>2, TrimFacts DEF Key
<1> HIDE DEF a, b, low
<1>4. /\ a \in Int /\ b \in Int
      /\ \A k \in a .. b : r[k] \in Char /\ low[k] \in Char
    BY <1>1, <1>2
<1>5. /\ mid \in Seq(Char) /\ Len(mid) = b - a + 1
      /\ \A k \in 1 .. b - a + 1 : mid[k] = r[a + k - 1]
    BY <1>1, <1>4, SubSeqProperties
<1>6. /\ key \in Seq(Char) /\ Len(key) = b - a + 1
      /\ \A k \in 1 .. b - a + 1 : key[k] = low[a + k - 1]
    BY <1>1, <1>2, <1>4, SubSeqProperties
<1> HIDE DEF mid, key
<1>7. /\ toLowercase(mid) \in Seq(Char) /\ Len(toLowercase(mid)) = Len(mid)
      /\ \A k \in 1 .. Len(mid) : toLowercase(mid)[k] = tolower[mid[k]]
    BY <1>5, LowerFacts
<1>8. \A k \in 1 .. b - a + 1 : a + k - 1 \in 1 .. Len(r)
    BY <1>1
<1>9. \A k \in 1 .. b - a + 1 : key[k] = toLowercase(mid)[k]
    BY <1>2, <1>5, <1>6, <1>7, <1>8
<1>10. key = toLowercase(mid)
    BY <1>5, <1>6, <1>7, <1>9
<1> QED
    BY <1>1, <1>3, <1>10

\* Where only spaces are around an e-mail SQL's TRIM removes what trim does.
LEMMA DbKeyIsLowered ==
    ASSUME NEW s \in Seq(Char), NotBlank(s) # {}, OnlySpacesAround(s)
    PROVE  DbKey(s) = Lower(trim(s))
<1> DEFINE N == NotBlank(s)
           kept == {k \in DOMAIN s : s[k] # Space}
<1>1. /\ N \subseteq kept /\ N \subseteq Nat /\ kept \subseteq Nat
      /\ N \subseteq 0 .. Len(s) /\ kept \subseteq 0 .. Len(s) /\ Len(s) \in Nat
    BY EmailAssumption DEF NotBlank
<1>2. ASSUME NEW k \in kept PROVE \E m, n \in N : m <= k /\ k <= n
  <2>1. CASE s[k] \notin Blank
    <3>1. k \in N /\ k <= k
        BY <1>1, <2>1 DEF NotBlank
    <3> QED
        BY <3>1
  <2>2. CASE s[k] \in Blank
    <3>1. s[k] \in Blank \ {Space} /\ k \in DOMAIN s
        BY <2>2
    <3>2. PICK m, n \in DOMAIN s :
              m < k /\ k < n /\ s[m] \notin Blank /\ s[n] \notin Blank
        BY <3>1 DEF OnlySpacesAround
    <3>3. m \in N /\ n \in N /\ m \in Int /\ n \in Int /\ k \in Int
        BY <3>2 DEF NotBlank
    <3> QED
        BY <3>2, <3>3
  <2> QED
      BY <2>1, <2>2
<1> HIDE DEF N, kept
<1>3. /\ FirstIn(N) \in N /\ \A m \in N : FirstIn(N) <= m
      /\ FirstIn(kept) \in kept /\ \A m \in kept : FirstIn(kept) <= m
    BY <1>1, FirstFacts DEF N
<1>4. /\ LastIn(N) \in N /\ \A m \in N : m <= LastIn(N)
      /\ LastIn(kept) \in kept /\ \A m \in kept : m <= LastIn(kept)
    BY <1>1, LastFacts DEF N
<1> DEFINE f == FirstIn(N)
           l == LastIn(N)
           first == FirstIn(kept)
           last == LastIn(kept)
<1> HIDE DEF f, l, first, last
<1>5. /\ f \in Nat /\ l \in Nat /\ first \in Nat /\ last \in Nat
      /\ f \in kept /\ l \in kept
    BY <1>1, <1>3, <1>4 DEF f, l, first, last
<1>6. f = first
  <2>1. PICK m \in N : m <= first
      BY <1>2, <1>3 DEF first
  <2>2. f <= m /\ m \in Nat
      BY <1>1, <1>3 DEF f
  <2>3. first <= f
      BY <1>3, <1>5 DEF first
  <2> QED
      BY <1>5, <2>1, <2>2, <2>3
<1>7. l = last
  <2>1. PICK n \in N : last <= n
      BY <1>2, <1>4 DEF last
  <2>2. n <= l /\ n \in Nat
      BY <1>1, <1>4 DEF l
  <2>3. l <= last
      BY <1>4, <1>5 DEF last
  <2> QED
      BY <1>5, <2>1, <2>2, <2>3
<1>8. kept # {} /\ DbKey(s) = Lower(SubSeq(s, FirstIn(kept), LastIn(kept)))
    BY <1>3 DEF DbKey, kept
<1>9. trim(s) = SubSeq(s, FirstIn(N), LastIn(N))
    BY DEF trim, N
<1> QED
    BY <1>6, <1>7, <1>8, <1>9 DEF f, l, first, last

\* The server's and the database's normalisation, for one pair of e-mails.
LEMMA KeysAgree ==
    ASSUME NEW r \in Email, NEW s \in Email, NotBlank(s) # {}, OnlySpacesAround(s)
    PROVE  Key(r) = DbKey(s) <=> SameEmail(r, s) /\ ~HasOtherCapital(r)
<1>1. r \in Seq(Char) /\ s \in Seq(Char)
    BY EmailAssumption
<1> DEFINE y == trim(s)
<1>2. Bare(s) = {y} /\ DbKey(s) = Lower(y)
    BY <1>1, BareIsTrimmed, DbKeyIsLowered
<1> HIDE DEF y
<1>3. Lower(Lower(y)) = Lower(y) /\ NotBlank(Lower(y)) # {}
    BY <1>2, LowerAssumption
<1>4. CASE NotBlank(r) = {}
  <2>1. NotBlank(Key(r)) = {}
      BY <1>1, <1>4, LowerFacts DEF Key, trim
  <2>2. Within(r) = {}
      BY <1>4 DEF Within, NotBlank
  <2>3. ~SameEmail(r, s)
      BY <2>2 DEF SameEmail, Bare
  <2>4. Key(r) # DbKey(s)
      BY <1>2, <1>3, <2>1
  <2> QED
      BY <2>3, <2>4
<1>5. CASE NotBlank(r) # {}
  <2> DEFINE x == trim(r)
  <2>1. Bare(r) = {x} /\ Key(r) = toLowercase(x)
      BY <1>1, <1>5, BareIsTrimmed, KeyIsLowered
  <2> HIDE DEF x
  <2>2. Lower(toLowercase(x)) = Lower(x)
      BY <2>1, LowerAssumption
  <2>3. SameEmail(r, s) <=> Lower(x) = Lower(y)
      BY <1>2, <2>1 DEF SameEmail
  <2>4. HasOtherCapital(r) <=> Lower(x) # toLowercase(x)
      BY <2>1 DEF HasOtherCapital
  <2>5. ASSUME toLowercase(x) = Lower(y) PROVE Lower(x) = Lower(y)
      BY <1>3, <2>2, <2>5
  <2> QED
      BY <1>2, <2>1, <2>3, <2>4, <2>5
<1> QED
    BY <1>4, <1>5

-----------------------------------------------------------------------------
\* Together: a step of either part leaves the other as it is.
LEMMA FormattingSteps == Spec => NumberSpec
<1>1. Init => NumberInit
    BY DEF Init
<1>2. [Next]_TextVars => [\E t \in Thread : FormatStep(t)]_numberVars
    BY DEF Next, TextVars
<1> QED
    BY <1>1, <1>2, PTL DEF Spec, NumberSpec

LEMMA EmailSteps == Spec => EmailSpec
<1>1. Init => EmailInit
    BY DEF Init
<1>2. [Next]_TextVars => [EmailStep]_emailVars
    BY DEF Next, TextVars
<1> QED
    BY <1>1, <1>2, PTL DEF Spec, EmailSpec

-----------------------------------------------------------------------------
LookupInv ==
    /\ stored \in Seq(Char) /\ asked \in Seq(Char)
    /\ stored # <<>> =>
          /\ stored \in Email /\ asked \in Email
          /\ found = (Key(asked) = DbKey(stored))
          /\ mName = Mask(Key(asked))

LEMMA AlwaysLookupInv == EmailSpec => []LookupInv
<1>1. EmailInit => LookupInv
    BY DEF EmailInit, LookupInv
<1>2. LookupInv /\ [EmailStep]_emailVars => LookupInv'
  <2> SUFFICES ASSUME LookupInv, [EmailStep]_emailVars PROVE LookupInv'
      OBVIOUS
  <2>1. CASE Lookup
    <3>1. Email \subseteq Seq(Char)
        BY EmailAssumption
    <3> QED
        BY <2>1, <3>1 DEF Lookup, LookupInv
  <2>2. CASE Forget
      BY <2>2 DEF Forget, LookupInv
  <2>3. CASE UNCHANGED emailVars
      BY <2>3 DEF emailVars, LookupInv
  <2> QED
      BY <2>1, <2>2, <2>3 DEF EmailStep
<1> QED
    BY <1>1, <1>2, PTL DEF EmailSpec

\* Whatever case and blanks a request uses, it finds exactly the e-mail stored,
\* unless it has a capital that only the database knows: for any two
\* conversions of letters as LowerAssumption describes them.
THEOREM SameEmailsFound == Spec => []SameEmailIsFound
<1>1. LookupInv => SameEmailIsFound
    BY KeysAgree DEF LookupInv, SameEmailIsFound
<1> QED
    BY <1>1, AlwaysLookupInv, EmailSteps, PTL

LEMMA KeyIsString == \A s \in Seq(Char) : Key(s) \in Seq(Char)
<1> SUFFICES ASSUME NEW s \in Seq(Char) PROVE Key(s) \in Seq(Char)
    OBVIOUS
<1> DEFINE low == toLowercase(s)
<1>1. low \in Seq(Char)
    BY LowerFacts
<1> HIDE DEF low
<1>2. trim(low) \in Seq(Char)
  <2>1. CASE NotBlank(low) = {}
      BY <1>1, <2>1 DEF trim
  <2>2. CASE NotBlank(low) # {}
    <3> DEFINE f == FirstIn(NotBlank(low))
               l == LastIn(NotBlank(low))
    <3>1. f \in 1 .. Len(low) /\ l \in 1 .. Len(low) /\ trim(low) = SubSeq(low, f, l)
        BY <1>1, <2>2, TrimFacts
    <3> HIDE DEF f, l
    <3>2. f \in Int /\ l \in Int /\ \A k \in f .. l : low[k] \in Char
        BY <1>1, <3>1
    <3> QED
        BY <3>1, <3>2, SubSeqProperties
  <2> QED
      BY <2>1, <2>2
<1> QED
    BY <1>2 DEF Key, low

\* Of an e-mail of two characters or more every character but the first two and
\* the last two is masked, and nothing outside it is written.
THEOREM MasksHide == Spec => []MaskHidesTheMiddle
<1>1. ASSUME LookupInv PROVE MaskHidesTheMiddle
  <2> DEFINE email == Key(asked)
  <2> SUFFICES ASSUME stored # <<>>, Len(email) >= 2
               PROVE  /\ Masked(email) \subseteq DOMAIN email
                      /\ \A k \in DOMAIN email :
                            mName[k] = IF k <= 2 \/ k > Len(email) - 2
                                       THEN email[k] ELSE MaskChar
      BY DEF MaskHidesTheMiddle
  <2>1. email \in Seq(Char) /\ mName = Mask(email)
      BY <1>1, KeyIsString DEF LookupInv
  <2> HIDE DEF email
  <2>2. Len(email) \in Nat /\ DOMAIN email = 1 .. Len(email)
      BY <2>1
  <2>3. Masked(email) = {i + 1 : i \in 2 .. Len(email) - 3}
      BY <2>2 DEF Masked, MaskEnd
  <2>4. \A k \in 1 .. Len(email) : k \in Masked(email) <=> k > 2 /\ k <= Len(email) - 2
    <3> SUFFICES ASSUME NEW k \in 1 .. Len(email)
                 PROVE  k \in Masked(email) <=> k > 2 /\ k <= Len(email) - 2
        OBVIOUS
    <3>1. ASSUME k > 2, k <= Len(email) - 2 PROVE k \in Masked(email)
      <4>1. k - 1 \in 2 .. Len(email) - 3 /\ (k - 1) + 1 = k
          BY <2>2, <3>1
      <4> QED
          BY <2>3, <4>1
    <3> QED
        BY <2>2, <2>3, <3>1
  <2>5. Masked(email) \subseteq DOMAIN email
      BY <2>2, <2>3
  <2> QED
      BY <2>1, <2>2, <2>4, <2>5 DEF Mask
<1> QED
    BY <1>1, AlwaysLookupInv, EmailSteps, PTL

-----------------------------------------------------------------------------
(***************************************************************************)
(* Decimal digits. Decimal is a recursive function: that there is one goes *)
(* by induction on the numbers up to which it is defined.                  *)
(***************************************************************************)
DigitChar == {Digit[k] : k \in 1 .. 10}

LEMMA DigitFacts ==
    /\ \A d \in DigitChar : d \notin {".", "-", Nul}
    /\ \A n \in Nat : Digit[(n % 10) + 1] \in DigitChar
<1>1. \A k \in 1 .. 10 : Digit[k] \in {"0", "1", "2", "3", "4", "5", "6", "7", "8", "9"}
    BY DEF Digit
<1>2. \A d \in {"0", "1", "2", "3", "4", "5", "6", "7", "8", "9"} : d \notin {".", "-", Nul}
    BY DEF Nul
<1>3. \A d \in DigitChar : d \notin {".", "-", Nul}
    BY <1>1, <1>2 DEF DigitChar
<1>4. \A n \in Nat : (n % 10) + 1 \in 1 .. 10
    OBVIOUS
<1> QED
    BY <1>3, <1>4 DEF DigitChar

NextDecimal(f, n) ==
    (IF n < 10 THEN <<>> ELSE f[n \div 10]) \o <<Digit[(n % 10) + 1]>>

IsDecimal(f, n) == \A k \in 0 .. n : f[k] = NextDecimal(f, k)

LEMMA TenthIsLess == \A n \in Nat : n >= 10 => n \div 10 \in 0 .. n - 1
    OBVIOUS

LEMMA NextAgrees ==
    ASSUME NEW n \in Nat, NEW f, NEW g, n >= 10 => f[n \div 10] = g[n \div 10]
    PROVE  NextDecimal(f, n) = NextDecimal(g, n)
<1>1. (IF n < 10 THEN <<>> ELSE f[n \div 10]) = (IF n < 10 THEN <<>> ELSE g[n \div 10])
    OBVIOUS
<1> QED
    BY <1>1, Zenon DEF NextDecimal

LEMMA DecimalsAgree ==
    ASSUME NEW m \in Nat, NEW n \in Nat, NEW f, NEW g, IsDecimal(f, m), IsDecimal(g, n)
    PROVE  \A k \in Nat : k <= m /\ k <= n => f[k] = g[k]
<1> DEFINE S == {k \in Nat : k <= m /\ k <= n => f[k] = g[k]}
<1>1. ASSUME NEW k \in Nat, \A j \in 0 .. k - 1 : j \in S
      PROVE  k \in S
  <2> SUFFICES ASSUME k <= m, k <= n PROVE f[k] = g[k]
      OBVIOUS
  <2>1. f[k] = NextDecimal(f, k) /\ g[k] = NextDecimal(g, k)
      BY DEF IsDecimal
  <2>2. k >= 10 => f[k \div 10] = g[k \div 10]
      BY <1>1, TenthIsLess
  <2> QED
      BY <2>1, <2>2, NextAgrees
<1> HIDE DEF S
<1>2. Nat \subseteq S
    BY <1>1, StrongInduction
<1> QED
    BY <1>2 DEF S

LEMMA DecimalsExist == \A n \in Nat : \E f : IsDecimal(f, n)
<1> DEFINE S == {n \in Nat : \E f : IsDecimal(f, n)}
<1>1. 0 \in S
  <2> DEFINE f == [k \in 0 .. 0 |-> NextDecimal(<<>>, 0)]
  <2>1. \A k \in 0 .. 0 : f[k] = NextDecimal(f, k)
      BY DEF NextDecimal
  <2> HIDE DEF f
  <2> QED
      BY <2>1 DEF IsDecimal
<1>2. ASSUME NEW n \in Nat, n \in S PROVE n + 1 \in S
  <2>1. PICK f : IsDecimal(f, n)
      BY <1>2
  <2> DEFINE g == [k \in 0 .. n + 1 |-> IF k = n + 1 THEN NextDecimal(f, k) ELSE f[k]]
  <2>2. \A k \in 0 .. n : g[k] = f[k]
      OBVIOUS
  <2>3. ASSUME NEW k \in 0 .. n + 1 PROVE g[k] = NextDecimal(g, k)
    <3>1. g[k] = NextDecimal(f, k)
      <4>1. CASE k = n + 1
          BY <4>1
      <4>2. CASE k # n + 1
        <5>1. k \in 0 .. n
            BY <4>2
        <5> QED
            BY <2>1, <2>2, <5>1 DEF IsDecimal
      <4> QED
          BY <4>1, <4>2
    <3>2. k >= 10 => g[k \div 10] = f[k \div 10]
      <4>1. k >= 10 => k \div 10 \in 0 .. n
          BY TenthIsLess
      <4> HIDE DEF g
      <4> QED
          BY <2>2, <4>1
    <3> HIDE DEF g
    <3>3. NextDecimal(f, k) = NextDecimal(g, k)
        BY <3>2, NextAgrees
    <3> QED
        BY <3>1, <3>3
  <2> HIDE DEF g
  <2>4. IsDecimal(g, n + 1)
      BY <2>3 DEF IsDecimal
  <2> QED
      BY <2>4
<1> HIDE DEF S
<1>3. Nat \subseteq S
    BY <1>1, <1>2, StepInduction
<1> QED
    BY <1>3 DEF S

LEMMA DecimalDef == \A n \in Nat : Decimal[n] = NextDecimal(Decimal, n)
<1> DEFINE Up(n) == CHOOSE f : IsDecimal(f, n)
           D == [n \in Nat |-> Up(n)[n]]
<1>1. \A n \in Nat : IsDecimal(Up(n), n)
    BY DecimalsExist
<1> HIDE DEF Up
<1>2. ASSUME NEW n \in Nat PROVE D[n] = NextDecimal(D, n)
  <2>1. D[n] = NextDecimal(Up(n), n)
      BY <1>1 DEF IsDecimal
  <2>2. n >= 10 => Up(n)[n \div 10] = D[n \div 10]
    <3> SUFFICES ASSUME n >= 10 PROVE Up(n)[n \div 10] = Up(n \div 10)[n \div 10]
        BY TenthIsLess
    <3> DEFINE m == n \div 10
    <3>1. m \in Nat /\ m <= n
        BY TenthIsLess
    <3> HIDE DEF m
    <3>2. IsDecimal(Up(n), n) /\ IsDecimal(Up(m), m)
        BY <1>1, <3>1
    <3>3. Up(n)[m] = Up(m)[m]
        BY <3>1, <3>2, DecimalsAgree
    <3> QED
        BY <3>3 DEF m
  <2> HIDE DEF D
  <2>3. NextDecimal(Up(n), n) = NextDecimal(D, n)
      BY <2>2, NextAgrees
  <2> QED
      BY <2>1, <2>3
<1>3. D = [n \in Nat |-> D[n]]
    OBVIOUS
<1> HIDE DEF D
<1>4. D = [n \in Nat |-> (IF n < 10 THEN <<>> ELSE D[n \div 10]) \o <<Digit[(n % 10) + 1]>>]
    BY <1>2, <1>3, Zenon DEF NextDecimal
<1>5. Decimal = [n \in Nat |->
                    (IF n < 10 THEN <<>> ELSE Decimal[n \div 10]) \o <<Digit[(n % 10) + 1]>>]
    BY <1>4, Zenon DEF Decimal
<1> HIDE DEF Decimal
<1> QED
    BY <1>5, Zenon DEF NextDecimal

\* A decimal is one digit or more.
LEMMA DecimalIsDigits ==
    \A n \in Nat : Decimal[n] \in Seq(DigitChar) /\ Len(Decimal[n]) >= 1
<1> DEFINE S == {n \in Nat : Decimal[n] \in Seq(DigitChar) /\ Len(Decimal[n]) >= 1}
<1>1. ASSUME NEW n \in Nat, \A m \in 0 .. n - 1 : m \in S
      PROVE  n \in S
  <2> DEFINE front == IF n < 10 THEN <<>> ELSE Decimal[n \div 10]
             last == <<Digit[(n % 10) + 1]>>
  <2>1. Decimal[n] = front \o last
      BY DecimalDef DEF NextDecimal
  <2>2. front \in Seq(DigitChar)
      BY <1>1, TenthIsLess
  <2>3. last \in Seq(DigitChar) /\ Len(last) = 1
      BY DigitFacts
  <2> HIDE DEF front, last
  <2>4. front \o last \in Seq(DigitChar) /\ Len(front \o last) = Len(front) + 1
      BY <2>2, <2>3, ConcatProperties
  <2>5. Len(front) \in Nat
      BY <2>2
  <2> DEFINE d == front \o last
  <2>6. d \in Seq(DigitChar) /\ Len(d) >= 1 /\ Decimal[n] = d
    <3> HIDE DEF d
    <3>1. Len(front) + 1 >= 1
        BY <2>5
    <3> QED
        BY <2>1, <2>4, <3>1, Zenon DEF d
  <2> HIDE DEF d
  <2> QED
      BY <2>6
<1> HIDE DEF S
<1>2. Nat \subseteq S
    BY <1>1, StrongInduction
<1> QED
    BY <1>2 DEF S

-----------------------------------------------------------------------------
(***************************************************************************)
(* The text of a number, and what is left of it without trailing zeros.    *)
(***************************************************************************)
Shown == DigitChar \cup {".", "-"}

\* Digits after a sign, a point, and two digits.
Shaped(text) ==
    /\ text \in Seq(Shown) /\ Len(text) >= 4
    /\ text[Len(text) - 2] = "."
    /\ text[Len(text) - 1] \in DigitChar /\ text[Len(text)] \in DigitChar
    /\ \A k \in 1 .. Len(text) - 3 : text[k] # "."

LEMMA ShownFacts ==
    /\ \A c \in Shown : c # Nul
    /\ \A s \in Seq(Shown) : s \in Text
    /\ Shown \subseteq Shown \cup {Nul} /\ Text = Seq(Shown \cup {Nul})
<1>1. \A c \in Shown : c # Nul
    BY DigitFacts DEF Shown, Nul
<1>2. Text = Seq(Shown \cup {Nul})
  <2>1. {Digit[k] : k \in 1 .. 10} \cup {".", "-", Nul} = Shown \cup {Nul}
      BY DEF Shown, DigitChar
  <2> QED
      BY <2>1 DEF Text
<1>3. \A s \in Seq(Shown) : s \in Text
    BY <1>2, SeqMonotonic
<1> QED
    BY <1>1, <1>2, <1>3

LEMMA OneIsSeq == ASSUME NEW S, NEW x \in S PROVE <<x>> \in Seq(S)
    OBVIOUS

LEMMA PutLast ==
    ASSUME NEW S, NEW s \in Seq(S), NEW x \in S
    PROVE  /\ s \o <<x>> \in Seq(S) /\ Len(s \o <<x>>) = Len(s) + 1
           /\ \A k \in 1 .. Len(s) : (s \o <<x>>)[k] = s[k]
           /\ (s \o <<x>>)[Len(s) + 1] = x
<1> DEFINE one == <<x>>
           t == s \o one
<1>1. one \in Seq(S) /\ Len(one) = 1 /\ one[1] = x /\ Len(s) \in Nat
    OBVIOUS
<1> HIDE DEF one
<1>2. /\ t \in Seq(S) /\ Len(t) = Len(s) + Len(one)
      /\ \A k \in 1 .. Len(s) + Len(one) :
            t[k] = IF k <= Len(s) THEN s[k] ELSE one[k - Len(s)]
    BY <1>1, ConcatProperties
<1> HIDE DEF t
<1>3. t[Len(s) + 1] = x
  <2>1. /\ Len(s) + 1 \in 1 .. Len(s) + Len(one) /\ ~(Len(s) + 1 <= Len(s))
        /\ (Len(s) + 1) - Len(s) = 1
      BY <1>1
  <2> QED
      BY <1>1, <1>2, <2>1
<1>4. \A k \in 1 .. Len(s) : t[k] = s[k]
    BY <1>1, <1>2
<1> QED
    BY <1>1, <1>2, <1>3, <1>4 DEF t, one

LEMMA FixedShape == \A n \in Number \cup {Zero} : Shaped(Fixed(n))
<1> SUFFICES ASSUME NEW n \in Number \cup {Zero} PROVE Shaped(Fixed(n))
    OBVIOUS
<1> DEFINE h == n.hundredths
           sign == IF n.negative THEN <<"-">> ELSE <<>>
           digits == Decimal[h \div 100]
           head == sign \o digits
           pointed == head \o <<".">>
           tenths == Digit[((h \div 10) % 10) + 1]
           rest == Digit[(h % 10) + 1]
           short == pointed \o <<tenths>>
           text == short \o <<rest>>
<1>1. Fixed(n) = text
    BY DEF Fixed
<1>2. h \in Nat /\ h \div 100 \in Nat /\ h \div 10 \in Nat
  <2>1. h \in Nat
      BY NumberAssumption DEF Zero
  <2> QED
      BY <2>1
<1>3. tenths \in DigitChar /\ rest \in DigitChar
    BY <1>2, DigitFacts
<1>4. /\ head \in Seq(Shown) /\ Len(head) \in Nat /\ Len(head) >= 1
      /\ \A k \in 1 .. Len(head) : head[k] # "."
  <2> DEFINE S == DigitChar \cup {"-"}
  <2>1. sign \in Seq(S) /\ Len(sign) \in Nat
    <3>1. "-" \in S
        OBVIOUS
    <3> HIDE DEF S
    <3>2. <<"-">> \in Seq(S) /\ <<>> \in Seq(S)
        BY <3>1, OneIsSeq
    <3>3. sign \in Seq(S)
        BY <3>2, Zenon
    <3> HIDE DEF sign
    <3> QED
        BY <3>3
  <2>2. digits \in Seq(S) /\ Len(digits) \in Nat /\ Len(digits) >= 1
    <3>1. digits \in Seq(DigitChar) /\ Len(digits) >= 1
        BY <1>2, DecimalIsDigits
    <3> HIDE DEF digits
    <3> QED
        BY <3>1, SeqMonotonic
  <2>3. \A c \in S : c # "."
      BY DigitFacts
  <2> HIDE DEF S, sign, digits
  <2>4. head \in Seq(S) /\ Len(head) = Len(sign) + Len(digits)
      BY <2>1, <2>2, ConcatProperties
  <2> HIDE DEF head
  <2>5. \A k \in 1 .. Len(head) : head[k] \in S
      BY <2>4
  <2>6. S \subseteq Shown
      BY DEF S, Shown
  <2>7. head \in Seq(Shown)
      BY <2>4, <2>6, SeqMonotonic
  <2> QED
      BY <2>1, <2>2, <2>3, <2>4, <2>5, <2>7
<1>5. "." \in Shown /\ tenths \in Shown /\ rest \in Shown
    BY <1>3 DEF Shown
<1> HIDE DEF head, tenths, rest
<1>6. /\ pointed \in Seq(Shown) /\ Len(pointed) = Len(head) + 1
      /\ \A k \in 1 .. Len(head) : pointed[k] = head[k]
      /\ pointed[Len(head) + 1] = "."
    BY <1>4, <1>5, PutLast
<1> HIDE DEF pointed
<1>7. /\ short \in Seq(Shown) /\ Len(short) = Len(pointed) + 1
      /\ \A k \in 1 .. Len(pointed) : short[k] = pointed[k]
      /\ short[Len(pointed) + 1] = tenths
    BY <1>5, <1>6, PutLast
<1> HIDE DEF short
<1>8. /\ text \in Seq(Shown) /\ Len(text) = Len(short) + 1
      /\ \A k \in 1 .. Len(short) : text[k] = short[k]
      /\ text[Len(short) + 1] = rest
    BY <1>5, <1>7, PutLast
<1> HIDE DEF text
<1>9. /\ Len(text) = Len(head) + 3 /\ Len(text) - 1 = Len(head) + 2
      /\ Len(text) - 2 = Len(head) + 1 /\ Len(text) - 3 = Len(head)
    BY <1>4, <1>6, <1>7, <1>8
<1>10. text[Len(head) + 3] = rest
    BY <1>8, <1>9
<1>11. text[Len(head) + 2] = tenths
  <2>1. Len(head) + 2 \in 1 .. Len(short) /\ Len(head) + 2 = Len(pointed) + 1
      BY <1>4, <1>6, <1>7
  <2> QED
      BY <1>7, <1>8, <2>1
<1>12. text[Len(head) + 1] = "."
  <2>1. Len(head) + 1 \in 1 .. Len(short) /\ Len(head) + 1 \in 1 .. Len(pointed)
      BY <1>4, <1>6, <1>7
  <2> QED
      BY <1>6, <1>7, <1>8, <2>1
<1>13. ASSUME NEW k \in 1 .. Len(head) PROVE text[k] # "."
  <2>1. k \in 1 .. Len(short) /\ k \in 1 .. Len(pointed)
      BY <1>4, <1>6, <1>7
  <2> QED
      BY <1>4, <1>6, <1>7, <1>8, <2>1
<1>14. Len(text) >= 4
    BY <1>4, <1>9
<1> QED
    BY <1>1, <1>3, <1>8, <1>9, <1>10, <1>11, <1>12, <1>13, <1>14 DEF Shaped

\* The first m characters.
LEMMA PrefixFacts ==
    ASSUME NEW S, NEW s \in Seq(S), NEW m \in 0 .. Len(s)
    PROVE  /\ SubSeq(s, 1, m) \in Seq(S) /\ Len(SubSeq(s, 1, m)) = m
           /\ \A k \in 1 .. m : SubSeq(s, 1, m)[k] = s[k]
<1>1. m \in Int /\ \A k \in 1 .. m : s[k] \in S
    OBVIOUS
<1>2. /\ SubSeq(s, 1, m) \in Seq(S)
      /\ Len(SubSeq(s, 1, m)) = IF 1 <= m THEN m - 1 + 1 ELSE 0
      /\ \A k \in 1 .. m - 1 + 1 : SubSeq(s, 1, m)[k] = s[1 + k - 1]
    BY <1>1, SubSeqProperties
<1>3. \A k \in 1 .. m : k \in 1 .. m - 1 + 1 /\ 1 + k - 1 = k
    BY <1>1
<1> QED
    BY <1>2, <1>3

LEMMA LastNotOfIs ==
    ASSUME NEW S, NEW text \in Seq(S), NEW c, NEW n \in 0 .. Len(text),
           n = 0 \/ text[n] # c, \A k \in n + 1 .. Len(text) : text[k] = c
    PROVE  LastNotOf(text, c) = n
<1>1. ASSUME NEW m \in 0 .. Len(text), m = 0 \/ text[m] # c,
             \A k \in m + 1 .. Len(text) : text[k] = c
      PROVE  m = n
    BY <1>1
<1> QED
    BY <1>1 DEF LastNotOf

LEMMA StrippedIs ==
    ASSUME NEW text, NEW pos, LastNotOf(text, "0") = pos, pos # 0,
           NEW u, u = SubSeq(text, 1, pos)
    PROVE  Stripped(text) = IF u[Len(u)] = "." THEN SubSeq(u, 1, Len(u) - 1) ELSE u
    BY DEF Stripped

\* Stripping takes exactly the zeros off that count for nothing.
LEMMA StrippedFacts ==
    ASSUME NEW text, Shaped(text)
    PROVE  LET r == Stripped(text) IN
           /\ r \in Seq(Shown) /\ ZerosRestored(r) = text
           /\ HasPoint(r) => r[Len(r)] \notin {"0", "."}
<1> DEFINE L == Len(text)
           r == Stripped(text)
<1>1. /\ text \in Seq(Shown) /\ L \in Nat /\ L >= 4
      /\ text[L - 2] = "." /\ text[L - 1] # "." /\ text[L] # "."
      /\ \A k \in 1 .. L - 3 : text[k] # "."
    BY DigitFacts DEF Shaped
<1> HIDE DEF Stripped
<1>2. CASE text[L] # "0"
  <2>1. LastNotOf(text, "0") = L
      BY <1>1, <1>2, LastNotOfIs
  <2>2. SubSeq(text, 1, L) = text
    <3> DEFINE u == SubSeq(text, 1, L)
    <3>1. u \in Seq(Shown) /\ Len(u) = L /\ \A k \in 1 .. L : u[k] = text[k]
        BY <1>1, PrefixFacts
    <3> HIDE DEF u
    <3>2. u = text
        BY <1>1, <3>1, SeqEqual
    <3> QED
        BY <3>2 DEF u
  <2>3. r = text
      BY <1>1, <2>1, <2>2 DEF Stripped
  <2>4. HasPoint(text)
      BY <1>1 DEF HasPoint
  <2> QED
      BY <1>1, <1>2, <2>3, <2>4 DEF ZerosRestored
<1>3. CASE text[L] = "0" /\ text[L - 1] # "0"
  <2> DEFINE u == SubSeq(text, 1, L - 1)
  <2>1. LastNotOf(text, "0") = L - 1
    <3>1. L - 1 \in 0 .. Len(text) /\ \A k \in (L - 1) + 1 .. Len(text) : k = L
        BY <1>1
    <3> QED
        BY <1>1, <1>3, <3>1, LastNotOfIs
  <2>2. u \in Seq(Shown) /\ Len(u) = L - 1 /\ \A k \in 1 .. L - 1 : u[k] = text[k]
    <3>1. L - 1 \in 0 .. Len(text)
        BY <1>1
    <3> QED
        BY <1>1, <3>1, PrefixFacts
  <2> HIDE DEF u
  <2>3. r = u
    <3>1. L - 1 # 0
        BY <1>1
    <3>2. u[Len(u)] # "."
      <4>1. Len(u) = L - 1 /\ L - 1 \in 1 .. L - 1
          BY <1>1, <2>2
      <4> QED
          BY <1>1, <2>2, <4>1
    <3>3. u = SubSeq(text, 1, L - 1)
        BY DEF u
    <3>4. r = IF u[Len(u)] = "." THEN SubSeq(u, 1, Len(u) - 1) ELSE u
        BY <2>1, <3>1, <3>3, StrippedIs
    <3> QED
        BY <3>2, <3>4
  <2>4. HasPoint(u) /\ u[Len(u) - 1] = "." /\ u[Len(u)] = text[L - 1]
    <3>1. L - 2 \in 1 .. L - 1 /\ Len(u) - 1 = L - 2 /\ L - 1 \in 1 .. L - 1
        BY <1>1, <2>2
    <3>2. u[L - 2] = "." /\ L - 2 \in DOMAIN u
        BY <1>1, <2>2, <3>1
    <3> QED
        BY <2>2, <3>1, <3>2 DEF HasPoint
  <2>5. Append(u, "0") = text
    <3> DEFINE w == Append(u, "0")
    <3>1. "0" \in Shown
      <4>1. text[L] \in Shown
          BY <1>1
      <4> QED
          BY <1>3, <4>1
    <3>2. /\ w \in Seq(Shown) /\ Len(w) = Len(u) + 1
          /\ \A k \in 1 .. Len(u) : w[k] = u[k]
          /\ w[Len(u) + 1] = "0"
        BY <2>2, <3>1, AppendProperties
    <3> HIDE DEF w
    <3>3. Len(w) = L /\ \A k \in 1 .. L : w[k] = text[k]
      <4>1. Len(w) = L /\ Len(u) + 1 = L
          BY <1>1, <2>2, <3>2
      <4>2. ASSUME NEW k \in 1 .. L PROVE w[k] = text[k]
        <5>1. CASE k = L
            BY <1>3, <3>2, <4>1, <5>1
        <5>2. CASE k # L
          <6>1. k \in 1 .. L - 1 /\ k \in 1 .. Len(u)
              BY <1>1, <2>2, <5>2
          <6> QED
              BY <2>2, <3>2, <6>1
        <5> QED
            BY <5>1, <5>2
      <4> QED
          BY <4>1, <4>2
    <3>4. w = text
        BY <1>1, <3>2, <3>3, SeqEqual
    <3> QED
        BY <3>4 DEF w
  <2>6. ZerosRestored(u) = text
      BY <2>4, <2>5 DEF ZerosRestored
  <2> QED
      BY <1>1, <1>3, <2>2, <2>3, <2>4, <2>6
<1>4. CASE text[L] = "0" /\ text[L - 1] = "0"
  <2> DEFINE u == SubSeq(text, 1, L - 2)
             v == SubSeq(u, 1, L - 3)
  <2>1. LastNotOf(text, "0") = L - 2
    <3>1. L - 2 \in 0 .. Len(text) /\ text[L - 2] # "0"
        BY <1>1
    <3>2. \A k \in (L - 2) + 1 .. Len(text) : k = L \/ k = L - 1
        BY <1>1
    <3>3. \A k \in (L - 2) + 1 .. Len(text) : text[k] = "0"
        BY <1>4, <3>2
    <3> QED
        BY <1>1, <3>1, <3>3, LastNotOfIs
  <2>2. u \in Seq(Shown) /\ Len(u) = L - 2 /\ \A k \in 1 .. L - 2 : u[k] = text[k]
    <3>1. L - 2 \in 0 .. Len(text)
        BY <1>1
    <3> QED
        BY <1>1, <3>1, PrefixFacts
  <2> HIDE DEF u
  <2>3. v \in Seq(Shown) /\ Len(v) = L - 3 /\ \A k \in 1 .. L - 3 : v[k] = text[k]
    <3>1. L - 3 \in 0 .. Len(u)
        BY <1>1, <2>2
    <3>2. v \in Seq(Shown) /\ Len(v) = L - 3 /\ \A k \in 1 .. L - 3 : v[k] = u[k]
        BY <2>2, <3>1, PrefixFacts
    <3>3. \A k \in 1 .. L - 3 : k \in 1 .. L - 2
        BY <1>1
    <3> QED
        BY <2>2, <3>2, <3>3
  <2>4. r = v
    <3> HIDE DEF L
    <3>1. L - 2 # 0 /\ L - 2 \in 1 .. L - 2 /\ Len(u) - 1 = L - 3
        BY <1>1, <2>2
    <3>2. u[Len(u)] = "."
        BY <1>1, <2>2, <3>1
    <3> QED
        BY <2>1, <3>1, <3>2 DEF Stripped, u
  <2> HIDE DEF v
  <2>5. ~HasPoint(v)
    <3>1. DOMAIN v = 1 .. L - 3
        BY <2>3
    <3> QED
        BY <1>1, <2>3, <3>1 DEF HasPoint
  <2>6. v \o <<".", "0", "0">> = text
    <3> DEFINE tail == <<".", "0", "0">>
               w == v \o tail
    <3>1. "0" \in Shown /\ "." \in Shown
      <4>1. text[L] \in Shown
          BY <1>1
      <4> QED
          BY <1>4, <4>1 DEF Shown
    <3>2. /\ tail \in Seq(Shown) /\ Len(tail) = 3
          /\ tail[1] = "." /\ tail[2] = "0" /\ tail[3] = "0"
        BY <3>1
    <3> HIDE DEF tail
    <3>3. /\ w \in Seq(Shown) /\ Len(w) = Len(v) + Len(tail)
          /\ \A k \in 1 .. Len(v) + Len(tail) :
                w[k] = IF k <= Len(v) THEN v[k] ELSE tail[k - Len(v)]
        BY <2>3, <3>2, ConcatProperties
    <3> HIDE DEF w
    <3>4. Len(w) = L /\ Len(v) + Len(tail) = L
        BY <1>1, <2>3, <3>2, <3>3
    <3>5. ASSUME NEW k \in 1 .. L PROVE w[k] = text[k]
      <4>1. w[k] = IF k <= L - 3 THEN v[k] ELSE tail[k - (L - 3)]
          BY <2>3, <3>3, <3>4
      <4>2. CASE k <= L - 3
        <5>1. k \in 1 .. L - 3
            BY <1>1, <4>2
        <5> QED
            BY <2>3, <4>1, <4>2, <5>1
      <4>3. CASE k = L - 2
        <5>1. k - (L - 3) = 1 /\ ~(k <= L - 3)
            BY <1>1, <4>3
        <5> QED
            BY <1>1, <3>2, <4>1, <4>3, <5>1
      <4>4. CASE k = L - 1
        <5>1. k - (L - 3) = 2 /\ ~(k <= L - 3)
            BY <1>1, <4>4
        <5> QED
            BY <1>4, <3>2, <4>1, <4>4, <5>1
      <4>5. CASE k = L
        <5>1. k - (L - 3) = 3 /\ ~(k <= L - 3)
            BY <1>1, <4>5
        <5> QED
            BY <1>4, <3>2, <4>1, <4>5, <5>1
      <4> QED
          BY <1>1, <4>2, <4>3, <4>4, <4>5
    <3>6. w = text
        BY <1>1, <3>3, <3>4, <3>5, SeqEqual
    <3> QED
        BY <3>6 DEF w, tail
  <2>7. ZerosRestored(v) = text
      BY <2>5, <2>6 DEF ZerosRestored
  <2> QED
      BY <2>3, <2>4, <2>5, <2>7
<1> QED
    BY <1>2, <1>3, <1>4

-----------------------------------------------------------------------------
(***************************************************************************)
(* The stream: what c_str() finds in it, and what a write leaves there.    *)
(***************************************************************************)

\* f and a NUL are at the beginning, whatever comes after.
Holds(buf, f) ==
    /\ buf \in Text /\ Len(buf) >= Len(f) + 1
    /\ \A k \in 1 .. Len(f) : buf[k] = f[k]
    /\ buf[Len(f) + 1] = Nul

LEMMA CStringIs ==
    ASSUME NEW f \in Seq(Shown), NEW buf, Holds(buf, f)
    PROVE  CString(buf) = f
<1> DEFINE S == Shown \cup {Nul}
           Is(s) == /\ \A k \in DOMAIN s : s[k] # Nul
                    /\ Len(s) = Len(buf) \/ buf[Len(s) + 1] = Nul
           n == Len(f)
<1>1. /\ buf \in Seq(S) /\ n \in Nat /\ Len(buf) \in Nat /\ n \in 0 .. Len(buf)
      /\ n + 1 \in 1 .. Len(buf) /\ buf[n + 1] = Nul
      /\ \A k \in 1 .. n : buf[k] = f[k] /\ f[k] # Nul
    BY ShownFacts DEF Holds
<1>2. ASSUME NEW m \in 0 .. Len(buf)
      PROVE  /\ SubSeq(buf, 1, m) \in Seq(S) /\ Len(SubSeq(buf, 1, m)) = m
             /\ \A k \in 1 .. m : SubSeq(buf, 1, m)[k] = buf[k]
  <2> HIDE DEF S
  <2> QED
      BY <1>1, PrefixFacts
<1>3. SubSeq(buf, 1, n) = f
  <2> DEFINE u == SubSeq(buf, 1, n)
  <2>1. u \in Seq(S) /\ Len(u) = n /\ \A k \in 1 .. n : u[k] = f[k]
      BY <1>1, <1>2
  <2>2. f \in Seq(S)
    <3>1. Shown \subseteq S
        OBVIOUS
    <3> HIDE DEF S
    <3> QED
        BY <3>1, SeqMonotonic
  <2> HIDE DEF u, S
  <2>3. u = f
      BY <2>1, <2>2, SeqEqual
  <2> QED
      BY <2>3 DEF u
<1>4. f \in {SubSeq(buf, 1, m) : m \in 0 .. Len(buf)} /\ Is(f)
  <2>1. f \in {SubSeq(buf, 1, m) : m \in 0 .. Len(buf)}
    <3> HIDE DEF n
    <3> QED
        BY <1>1, <1>3
  <2>2. DOMAIN f = 1 .. n
      OBVIOUS
  <2>3. Is(f)
      BY <1>1, <2>2
  <2> QED
      BY <2>1, <2>3
<1>5. ASSUME NEW s \in {SubSeq(buf, 1, m) : m \in 0 .. Len(buf)}, Is(s)
      PROVE  s = f
  <2>1. PICK m \in 0 .. Len(buf) : s = SubSeq(buf, 1, m)
      OBVIOUS
  <2>2. s \in Seq(S) /\ Len(s) = m /\ \A k \in 1 .. m : s[k] = buf[k]
      BY <1>2, <2>1
  <2>3. DOMAIN s = 1 .. m /\ m \in Nat
      BY <2>2
  <2>4. ~(m < n)
    <3> SUFFICES ASSUME m < n PROVE FALSE
        OBVIOUS
    <3>1. m + 1 \in 1 .. n /\ m # Len(buf)
        BY <1>1, <2>3
    <3>2. buf[m + 1] # Nul
        BY <1>1, <3>1
    <3> QED
        BY <1>5, <2>2, <3>1, <3>2
  <2>5. ~(m > n)
    <3> SUFFICES ASSUME m > n PROVE FALSE
        OBVIOUS
    <3>1. n + 1 \in 1 .. m
        BY <1>1, <2>3
    <3> QED
        BY <1>1, <1>5, <2>2, <2>3, <3>1
  <2>6. m = n
      BY <1>1, <2>3, <2>4, <2>5
  <2> QED
      BY <1>3, <2>1, <2>6
<1>6. CString(buf) \in {SubSeq(buf, 1, m) : m \in 0 .. Len(buf)} /\ Is(CString(buf))
  <2> DEFINE T == {SubSeq(buf, 1, m) : m \in 0 .. Len(buf)}
  <2>1. \E s \in T : Is(s)
      BY <1>4
  <2>2. CString(buf) = CHOOSE s \in T : Is(s)
      BY DEF CString
  <2> HIDE DEF T
  <2>3. CString(buf) \in T /\ Is(CString(buf))
      BY <2>1, <2>2, Zenon
  <2> QED
      BY <2>3 DEF T
<1> QED
    BY <1>5, <1>6

\* What Write puts into the stream when it writes from the beginning.
LEMMA WriteFacts ==
    ASSUME NEW f \in Seq(Shown), NEW buf \in Text
    PROVE  LET text == Append(f, Nul)
               new  == SubSeq(buf, 1, 0) \o text \o SubSeq(buf, Len(text) + 1, Len(buf))
           IN  /\ Len(text) = Len(f) + 1
               /\ Holds(new, f) /\ Len(new) \in {Len(f) + 1, Len(buf)}
<1> DEFINE S == Shown \cup {Nul}
           text == Append(f, Nul)
           none == SubSeq(buf, 1, 0)
           rest == SubSeq(buf, Len(text) + 1, Len(buf))
           front == none \o text
           new == front \o rest
           n == Len(f)
<1>1. buf \in Seq(S) /\ Len(buf) \in Nat /\ n \in Nat /\ Shown \subseteq S /\ Nul \in S
    BY ShownFacts
<1> HIDE DEF S
<1>2. /\ text \in Seq(S) /\ Len(text) = n + 1
      /\ \A k \in 1 .. n : text[k] = f[k]
      /\ text[n + 1] = Nul
  <2>1. f \in Seq(S)
      BY <1>1, SeqMonotonic
  <2> QED
      BY <1>1, <2>1, AppendProperties
<1> HIDE DEF text
<1>3. none \in Seq(S) /\ Len(none) = 0
  <2>1. 0 \in 0 .. Len(buf)
      BY <1>1
  <2> QED
      BY <1>1, <2>1, PrefixFacts
<1>4. /\ rest \in Seq(S) /\ Len(rest) \in Nat
      /\ Len(rest) = IF n + 2 <= Len(buf) THEN Len(buf) - (n + 1) ELSE 0
  <2> DEFINE m == n + 2
             q == Len(buf)
             part == SubSeq(buf, m, q)
  <2>1. m \in 1 .. q + 1 \/ m > q + 1
      BY <1>1
  <2>2. m \in Int /\ q \in Int /\ \A k \in m .. q : buf[k] \in S
      BY <1>1
  <2>3. rest = part
      BY <1>1, <1>2
  <2> HIDE DEF m, q
  <2>4. part \in Seq(S) /\ Len(part) = IF m <= q THEN q - m + 1 ELSE 0
      BY <2>2, SubSeqProperties
  <2> HIDE DEF part, rest
  <2>5. rest \in Seq(S) /\ Len(rest) = IF m <= q THEN q - m + 1 ELSE 0
      BY <2>3, <2>4
  <2> QED
      BY <1>1, <2>5 DEF m, q
<1> HIDE DEF none, rest
<1>5. /\ front \in Seq(S) /\ Len(front) = n + 1
      /\ \A k \in 1 .. n + 1 : front[k] = text[k]
  <2>1. /\ front \in Seq(S) /\ Len(front) = Len(none) + Len(text)
        /\ \A k \in 1 .. Len(none) + Len(text) :
              front[k] = IF k <= Len(none) THEN none[k] ELSE text[k - Len(none)]
      BY <1>2, <1>3, ConcatProperties
  <2>2. \A k \in 1 .. n + 1 : ~(k <= 0) /\ k - 0 = k
      BY <1>1
  <2> HIDE DEF front
  <2> QED
      BY <1>1, <1>2, <1>3, <2>1, <2>2
<1> HIDE DEF front
<1>6. /\ new \in Seq(S) /\ Len(new) = n + 1 + Len(rest)
      /\ \A k \in 1 .. n + 1 : new[k] = front[k]
  <2>1. /\ new \in Seq(S) /\ Len(new) = Len(front) + Len(rest)
        /\ \A k \in 1 .. Len(front) + Len(rest) :
              new[k] = IF k <= Len(front) THEN front[k] ELSE rest[k - Len(front)]
      BY <1>4, <1>5, ConcatProperties
  <2> HIDE DEF n, new
  <2>2. \A k \in 1 .. n + 1 : k \in 1 .. n + 1 + Len(rest)
    <3>1. n \in Nat /\ Len(rest) \in Nat
        BY <1>1, <1>4
    <3> QED
        BY <3>1
  <2> QED
      BY <1>1, <1>5, <2>1, <2>2
<1> HIDE DEF new
<1>7. new[n + 1] = Nul
  <2>1. n + 1 \in 1 .. n + 1
      BY <1>1
  <2> HIDE DEF n
  <2> QED
      BY <1>2, <1>5, <1>6, <2>1
<1>8. ASSUME NEW k \in 1 .. n PROVE new[k] = f[k]
  <2>1. k \in 1 .. n + 1
      BY <1>1
  <2> QED
      BY <1>2, <1>5, <1>6, <2>1
<1>9. Len(new) >= n + 1 /\ Len(new) \in {n + 1, Len(buf)}
  <2> HIDE DEF n
  <2>1. CASE n + 2 <= Len(buf)
    <3>1. Len(rest) = Len(buf) - (n + 1)
        BY <1>4, <2>1
    <3> QED
        BY <1>1, <1>6, <2>1, <3>1
  <2>2. CASE ~(n + 2 <= Len(buf))
    <3>1. Len(rest) = 0
        BY <1>4, <2>2
    <3> QED
        BY <1>1, <1>6, <3>1
  <2> QED
      BY <2>1, <2>2
<1>10. new \in Text
    BY <1>6, ShownFacts DEF S
<1>11. Holds(new, f)
    BY <1>7, <1>8, <1>9, <1>10 DEF Holds
<1> QED
    BY <1>2, <1>9, <1>11 DEF new, front, none, rest, text

-----------------------------------------------------------------------------
(***************************************************************************)
(* The formatting. A thread about to write is at the stream's beginning,   *)
(* a thread about to read finds its number there: that takes the mutex,    *)
(* which NumberTypeOK speaks of, and that the first one finds it unused.   *)
(***************************************************************************)
NumInv ==
    /\ NumberTypeOK
    /\ firstTime => putPos = 0
    /\ \A t \in Thread : formatPc[t] = "write" => ~firstTime /\ putPos = 0
    /\ \A t \in Thread : formatPc[t] = "read" => Holds(buffer, Fixed(number[t]))
    /\ EachGetsItsOwnNumber
    /\ BufferStaysSmall

Answers(n, text) ==
    /\ ZerosRestored(text) = Fixed(n)
    /\ HasPoint(text) => text[Len(text)] \notin {"0", "."}

LEMMA OwnIsAnswer ==
    EachGetsItsOwnNumber
        <=> \A t \in Thread : formatPc[t] = "done" => Answers(number[t], result[t])
    BY DEF EachGetsItsOwnNumber, Answers

\* A reader that finds its number's text makes an answer of it.
LEMMA ReadFacts ==
    ASSUME NEW n \in Number \cup {Zero}, NEW buf, Holds(buf, Fixed(n))
    PROVE  Stripped(CString(buf)) \in Text /\ Answers(n, Stripped(CString(buf)))
<1>1. Shaped(Fixed(n)) /\ Fixed(n) \in Seq(Shown)
    BY FixedShape DEF Shaped
<1>2. CString(buf) = Fixed(n)
    BY <1>1, CStringIs
<1>3. /\ Stripped(Fixed(n)) \in Seq(Shown)
      /\ Answers(n, Stripped(Fixed(n)))
    BY <1>1, StrippedFacts DEF Answers
<1>4. Stripped(Fixed(n)) \in Text
    BY <1>3, ShownFacts
<1> QED
    BY <1>2, <1>3, <1>4

LEMMA NumStart == NumberInit => NumInv
<1> SUFFICES ASSUME NumberInit PROVE NumInv
    OBVIOUS
<1>1. <<>> \in Text /\ Len(<<>>) = 0
    BY DEF Text
<1>2. \A t \in Thread : formatPc[t] = "idle" /\ mutex # t
    BY NumberAssumption DEF NumberInit
<1>3. NumberTypeOK
    BY <1>1, <1>2 DEF NumberInit, NumberTypeOK
<1>4. BufferStaysSmall
  <2> DEFINE f == Fixed(Zero)
  <2>1. Len(f) \in Nat
    <3>1. f \in Seq(Shown)
        BY FixedShape DEF Shaped
    <3> QED
        BY <3>1
  <2> HIDE DEF f
  <2>2. Len(buffer) <= Len(f) + 1
      BY <1>1, <2>1 DEF NumberInit
  <2> QED
      BY <2>2 DEF BufferStaysSmall, f
<1>5. EachGetsItsOwnNumber
    BY <1>2 DEF EachGetsItsOwnNumber
<1> QED
    BY <1>2, <1>3, <1>4, <1>5 DEF NumInv, NumberInit

LEMMA LockStep ==
    ASSUME NumInv, NEW t \in Thread, NEW n \in Number, Lock(t, n) PROVE NumInv'
<1>1. /\ formatPc' = [formatPc EXCEPT ![t] = "seek"] /\ formatPc[t] = "idle"
      /\ mutex = Free /\ mutex' = t /\ number' = [number EXCEPT ![t] = n]
      /\ buffer' = buffer /\ putPos' = putPos /\ firstTime' = firstTime
      /\ result' = result
    BY DEF Lock, FormatGoes
<1>2. \A u \in Thread : formatPc[u] \notin {"seek", "write", "read"}
    BY <1>1, NumberAssumption DEF NumInv, NumberTypeOK
<1>3. NumberTypeOK'
    BY <1>1, <1>2 DEF NumInv, NumberTypeOK
<1>4. \A u \in Thread : formatPc'[u] \notin {"write", "read"}
    BY <1>1, <1>2 DEF NumInv, NumberTypeOK
<1>5. \A u \in Thread : formatPc'[u] = "done" => Answers(number'[u], result'[u])
    BY <1>1, OwnIsAnswer DEF NumInv, NumberTypeOK
<1>6. EachGetsItsOwnNumber'
    BY <1>5 DEF EachGetsItsOwnNumber, Answers
<1>7. BufferStaysSmall'
    BY <1>1 DEF NumInv, BufferStaysSmall
<1> QED
    BY <1>1, <1>3, <1>4, <1>6, <1>7 DEF NumInv

LEMMA SeekStep ==
    ASSUME NumInv, NEW t \in Thread, Seek(t) PROVE NumInv'
<1>1. /\ formatPc' = [formatPc EXCEPT ![t] = "write"] /\ formatPc[t] = "seek"
      /\ putPos' = (IF firstTime THEN putPos ELSE 0) /\ firstTime' = FALSE
      /\ mutex' = mutex /\ buffer' = buffer /\ number' = number /\ result' = result
    BY DEF Seek, FormatGoes
<1>2. putPos' = 0
    BY <1>1 DEF NumInv
<1>3. NumberTypeOK'
  <2>1. 0 \in 0 .. Len(buffer)
      BY DEF NumInv, NumberTypeOK
  <2> QED
      BY <1>1, <1>2, <2>1 DEF NumInv, NumberTypeOK
<1>4. mutex = t
    BY <1>1 DEF NumInv, NumberTypeOK
<1>5. \A u \in Thread : formatPc'[u] # "read"
    BY <1>1, <1>4 DEF NumInv, NumberTypeOK
<1>6. \A u \in Thread : formatPc'[u] = "done" => Answers(number'[u], result'[u])
    BY <1>1, OwnIsAnswer DEF NumInv, NumberTypeOK
<1>7. EachGetsItsOwnNumber'
    BY <1>6 DEF EachGetsItsOwnNumber, Answers
<1>8. BufferStaysSmall'
    BY <1>1 DEF NumInv, BufferStaysSmall
<1> QED
    BY <1>1, <1>2, <1>3, <1>5, <1>7, <1>8 DEF NumInv

LEMMA WriteStep ==
    ASSUME NumInv, NEW t \in Thread, Write(t) PROVE NumInv'
<1> DEFINE f == Fixed(number[t])
           text == Append(f, Nul)
           new == SubSeq(buffer, 1, 0) \o text \o SubSeq(buffer, Len(text) + 1, Len(buffer))
<1>1. /\ formatPc' = [formatPc EXCEPT ![t] = "read"] /\ formatPc[t] = "write"
      /\ mutex' = mutex /\ firstTime' = firstTime /\ number' = number
      /\ result' = result
    BY DEF Write, FormatGoes
<1>2. putPos = 0 /\ mutex = t /\ buffer \in Text /\ number[t] \in Number \cup {Zero}
    BY <1>1 DEF NumInv, NumberTypeOK
<1>3. f \in Seq(Shown) /\ Len(f) \in Nat
  <2>1. f \in Seq(Shown)
      BY <1>2, FixedShape DEF Shaped
  <2> HIDE DEF f
  <2> QED
      BY <2>1
<1>4. Len(text) = Len(f) + 1 /\ Holds(new, f) /\ Len(new) \in {Len(f) + 1, Len(buffer)}
    BY <1>2, <1>3, WriteFacts
<1>5. buffer' = new /\ putPos' = Len(text)
  <2>1. 0 + Len(text) = Len(text)
    <3> HIDE DEF text, f
    <3> QED
        BY <1>3, <1>4
  <2>2. /\ buffer' = SubSeq(buffer, 1, putPos) \o text
                         \o SubSeq(buffer, putPos + Len(text) + 1, Len(buffer))
        /\ putPos' = putPos + Len(text)
      BY DEF Write
  <2> HIDE DEF text
  <2> QED
      BY <1>2, <2>1, <2>2
<1> HIDE DEF text, new
<1>6. f = Fixed(number[t])
    OBVIOUS
<1> HIDE DEF f
<1>7. new \in Text /\ Len(new) \in Nat /\ Len(new) >= Len(f) + 1
  <2>1. new \in Text /\ Len(new) >= Len(f) + 1
      BY <1>4 DEF Holds
  <2> QED
      BY <2>1 DEF Text
<1>8. putPos' \in 0 .. Len(buffer')
    BY <1>3, <1>4, <1>5, <1>7
<1>9. NumberTypeOK'
    BY <1>1, <1>2, <1>5, <1>7, <1>8 DEF NumInv, NumberTypeOK
<1>10. ~firstTime
    BY <1>1 DEF NumInv
<1>11. \A u \in Thread : formatPc'[u] = "write" => FALSE
    BY <1>1, <1>2 DEF NumInv, NumberTypeOK
<1>12. \A u \in Thread : formatPc'[u] = "read" => Holds(buffer', Fixed(number'[u]))
  <2>1. ASSUME NEW u \in Thread, formatPc'[u] = "read" PROVE u = t
      BY <1>1, <1>2, <2>1 DEF NumInv, NumberTypeOK
  <2>2. Holds(buffer', Fixed(number'[t]))
      BY <1>1, <1>4, <1>5, <1>6
  <2> QED
      BY <2>1, <2>2
<1>13. \A u \in Thread : formatPc'[u] = "done" => Answers(number'[u], result'[u])
    BY <1>1, OwnIsAnswer DEF NumInv, NumberTypeOK
<1>14. EachGetsItsOwnNumber'
    BY <1>13 DEF EachGetsItsOwnNumber, Answers
<1>15. BufferStaysSmall'
  <2>1. CASE Len(new) = Len(f) + 1
    <3>1. Len(buffer') <= Len(Fixed(number[t])) + 1
        BY <1>5, <1>6, <1>7, <2>1
    <3> QED
        BY <1>2, <3>1 DEF BufferStaysSmall
  <2>2. CASE Len(new) = Len(buffer)
      BY <1>5, <2>2 DEF NumInv, BufferStaysSmall
  <2> QED
      BY <1>4, <2>1, <2>2
<1> QED
    BY <1>1, <1>9, <1>10, <1>11, <1>12, <1>14, <1>15 DEF NumInv

LEMMA ReadStep ==
    ASSUME NumInv, NEW t \in Thread, Read(t) PROVE NumInv'
<1> DEFINE text == Stripped(CString(buffer))
<1>1. /\ formatPc' = [formatPc EXCEPT ![t] = "done"] /\ formatPc[t] = "read"
      /\ result' = [result EXCEPT ![t] = text] /\ mutex' = Free
      /\ buffer' = buffer /\ putPos' = putPos /\ firstTime' = firstTime
      /\ number' = number
    BY DEF Read, FormatGoes
<1>2. /\ mutex = t /\ number[t] \in Number \cup {Zero}
      /\ Holds(buffer, Fixed(number[t]))
    BY <1>1 DEF NumInv, NumberTypeOK
<1>3. text \in Text /\ Answers(number[t], text)
    BY <1>2, ReadFacts
<1> HIDE DEF text
<1>4. \A u \in Thread : formatPc'[u] \notin {"seek", "write", "read"}
    BY <1>1, <1>2 DEF NumInv, NumberTypeOK
<1>5. NumberTypeOK'
    BY <1>1, <1>3, <1>4, NumberAssumption DEF NumInv, NumberTypeOK
<1>6. \A u \in Thread : formatPc'[u] = "done" => Answers(number'[u], result'[u])
    BY <1>1, <1>3, OwnIsAnswer DEF NumInv, NumberTypeOK
<1>7. EachGetsItsOwnNumber'
    BY <1>6 DEF EachGetsItsOwnNumber, Answers
<1>8. BufferStaysSmall'
    BY <1>1 DEF NumInv, BufferStaysSmall
<1> QED
    BY <1>1, <1>4, <1>5, <1>7, <1>8 DEF NumInv

LEMMA UseStep ==
    ASSUME NumInv, NEW t \in Thread, Use(t) PROVE NumInv'
<1>1. /\ formatPc' = [formatPc EXCEPT ![t] = "idle"] /\ formatPc[t] = "done"
      /\ number' = [number EXCEPT ![t] = Zero] /\ result' = [result EXCEPT ![t] = <<>>]
      /\ mutex' = mutex /\ buffer' = buffer /\ putPos' = putPos /\ firstTime' = firstTime
    BY DEF Use, FormatGoes
<1>2. <<>> \in Text
    BY DEF Text
<1>3. NumberTypeOK'
    BY <1>1, <1>2 DEF NumInv, NumberTypeOK
<1>4. \A u \in Thread : formatPc'[u] = "write" => formatPc[u] = "write"
    BY <1>1 DEF NumInv, NumberTypeOK
<1>5. \A u \in Thread : formatPc'[u] = "read" => Holds(buffer', Fixed(number'[u]))
  <2> SUFFICES ASSUME NEW u \in Thread, formatPc'[u] = "read"
               PROVE  Holds(buffer', Fixed(number'[u]))
      OBVIOUS
  <2>1. formatPc[u] = "read" /\ number'[u] = number[u]
      BY <1>1 DEF NumInv, NumberTypeOK
  <2> QED
      BY <1>1, <2>1 DEF NumInv
<1>6. \A u \in Thread : formatPc'[u] = "done" => Answers(number'[u], result'[u])
    BY <1>1, OwnIsAnswer DEF NumInv, NumberTypeOK
<1>7. EachGetsItsOwnNumber'
    BY <1>6 DEF EachGetsItsOwnNumber, Answers
<1>8. BufferStaysSmall'
    BY <1>1 DEF NumInv, BufferStaysSmall
<1> QED
    BY <1>1, <1>3, <1>4, <1>5, <1>7, <1>8 DEF NumInv

LEMMA AlwaysNumInv == NumberSpec => []NumInv
<1>1. NumInv /\ [\E t \in Thread : FormatStep(t)]_numberVars => NumInv'
  <2> SUFFICES ASSUME NumInv, [\E t \in Thread : FormatStep(t)]_numberVars
               PROVE  NumInv'
      OBVIOUS
  <2>1. ASSUME NEW t \in Thread, FormatStep(t) PROVE NumInv'
      BY <2>1, LockStep, SeekStep, WriteStep, ReadStep, UseStep DEF FormatStep
  <2>2. CASE UNCHANGED numberVars
      BY <2>2 DEF numberVars, NumInv, NumberTypeOK, EachGetsItsOwnNumber, BufferStaysSmall
  <2> QED
      BY <2>1, <2>2
<1> QED
    BY <1>1, NumStart, PTL DEF NumberSpec

-----------------------------------------------------------------------------
\* The comment at the mutex ("because we have only one buffer, and this
\* function can be called from multiple threads at once") is right for any
\* number of threads and any numbers: none gets another's digits or what is
\* left of a longer number, and the zeros that count stay.
THEOREM OwnNumbers == Spec => []EachGetsItsOwnNumber
<1>1. NumInv => EachGetsItsOwnNumber
    BY DEF NumInv
<1> QED
    BY <1>1, AlwaysNumInv, FormattingSteps, PTL

\* However many numbers are formatted, the one stream never holds more than the
\* longest of them and its NUL.
THEOREM SmallBuffer == Spec => []BufferStaysSmall
<1>1. NumInv => BufferStaysSmall
    BY DEF NumInv
<1> QED
    BY <1>1, AlwaysNumInv, FormattingSteps, PTL

LEMMA MaskIsString ==
    \A s \in Seq(Char) : Mask(s) \in Seq(Char \cup {MaskChar})
<1> SUFFICES ASSUME NEW s \in Seq(Char) PROVE Mask(s) \in Seq(Char \cup {MaskChar})
    OBVIOUS
<1> DEFINE S == Char \cup {MaskChar}
           n == Len(s)
<1>1. n \in Nat /\ DOMAIN s = 1 .. n /\ \A k \in 1 .. n : s[k] \in S
    OBVIOUS
<1>2. MaskChar \in S
    OBVIOUS
<1> HIDE DEF S, n
<1>3. Mask(s) \in [1 .. n -> S]
    BY <1>1, <1>2 DEF Mask
<1>4. Mask(s) \in Seq(S)
    BY <1>1, <1>3
<1> QED
    BY <1>4 DEF S

\* What the two parts hold has its type: the mutex is held exactly by the
\* thread between taking and leaving it, and the stream's position lies in it.
THEOREM TextTypes == Spec => []TextTypeOK
<1>1. NumInv => NumberTypeOK
    BY DEF NumInv
<1> DEFINE S == Char \cup {MaskChar}
<1> HIDE DEF S
<1>0. <<>> \in Seq(S)
    OBVIOUS
<1>2. EmailInit => EmailTypeOK
    BY <1>0, Zenon DEF EmailInit, EmailTypeOK, S
<1>3. EmailTypeOK /\ [EmailStep]_emailVars => EmailTypeOK'
  <2> SUFFICES ASSUME EmailTypeOK, [EmailStep]_emailVars PROVE EmailTypeOK'
      OBVIOUS
  <2>1. CASE Lookup
    <3>1. \A r \in Email : Key(r) \in Seq(Char)
        BY EmailAssumption, KeyIsString
    <3>2. \A r \in Email : Mask(Key(r)) \in Seq(Char \cup {MaskChar})
        BY <3>1, MaskIsString
    <3> QED
        BY <2>1, <3>2 DEF Lookup, EmailTypeOK
  <2>2. CASE Forget
      BY <1>0, <2>2, Zenon DEF Forget, EmailTypeOK, S
  <2>3. CASE UNCHANGED emailVars
      BY <2>3 DEF emailVars, EmailTypeOK
  <2> QED
      BY <2>1, <2>2, <2>3 DEF EmailStep
<1>4. EmailSpec => []EmailTypeOK
    BY <1>2, <1>3, PTL DEF EmailSpec
<1>5. NumberTypeOK /\ EmailTypeOK => TextTypeOK
    BY DEF TextTypeOK
<1> QED
    BY <1>1, <1>4, <1>5, AlwaysNumInv, FormattingSteps, EmailSteps, PTL
=============================================================================

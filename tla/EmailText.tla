------------------------------ MODULE EmailText ------------------------------
(***************************************************************************)
(* What becomes of an e-mail: a request normalises the one it is asked     *)
(* with trim and toLowercase, the contacts are keyed by what the database  *)
(* makes of the stored one, and a task masks its e-mail for its name. The  *)
(* server works on bytes and knows the letters of ASCII; the database      *)
(* works on characters and knows others as well.                           *)
(*                                                                         *)
(* A definition whose name ends in Mutant is a faulty variant of the one   *)
(* after it and no part of the specification.                              *)
(***************************************************************************)
EXTENDS Integers, Sequences

CONSTANTS
    Char,      \* bytes; a character can have several
    Blank,     \* " \t\n\r"
    Space,     \* the only one SQL's TRIM removes
    tolower,   \* of C, byte by byte
    Lower(_),  \* LOWER of MySQL, of a whole string
    MaskChar,  \* 'x'
    Email,     \* e-mails stored and asked for
    SizeTMax   \* 2^64 - 1

ASSUME EmailAssumption ==
    /\ Blank \subseteq Char /\ Space \in Blank
    /\ tolower \in [Char -> Char] /\ \A b \in Blank : tolower[b] = b
    /\ \A c \in Char \ Blank : tolower[c] \notin Blank
    /\ Email \subseteq Seq(Char) /\ SizeTMax \in Nat

VARIABLES stored, asked, found, mName

emailVars == <<stored, asked, found, mName>>

EmailTypeOK ==
    /\ stored \in Email \cup {<<>>} /\ asked \in Email \cup {<<>>}
    /\ found \in BOOLEAN
    /\ mName \in Seq(Char \cup {MaskChar})

EmailInit == stored = <<>> /\ asked = <<>> /\ found = FALSE /\ mName = <<>>

toLowercase(s) == [k \in DOMAIN s |-> tolower[s[k]]]

NotBlank(s) == {k \in DOMAIN s : s[k] \notin Blank}

\* Where s begins and ends if only blanks are taken off its ends, and what
\* remains then.
Within(s) ==
    {p \in (1 .. Len(s)) \X (1 .. Len(s)) :
        /\ p[1] <= p[2] /\ s[p[1]] \notin Blank /\ s[p[2]] \notin Blank
        /\ \A k \in 1 .. p[1] - 1 : s[k] \in Blank
        /\ \A k \in p[2] + 1 .. Len(s) : s[k] \in Blank}

Bare(s) == {SubSeq(s, p[1], p[2]) : p \in Within(s)}

\* LOWER knows the capitals tolower knows, leaves no capital it knows, and
\* makes blanks of nothing.
ASSUME LowerAssumption ==
    \A s \in Email : \A bare \in Bare(s) :
        /\ Lower(toLowercase(bare)) = Lower(bare)
        /\ Lower(Lower(bare)) = Lower(bare)
        /\ NotBlank(Lower(bare)) # {}

FirstIn(S) == CHOOSE k \in S : \A m \in S : k <= m
LastIn(S) == CHOOSE k \in S : \A m \in S : m <= k

trimMutant(s) ==
    IF NotBlank(s) = {} THEN s
    ELSE SubSeq(s, FirstIn(NotBlank(s)), LastIn(NotBlank(s)) - 1)

\* A string of blanks is returned as it is.
trim(s) ==
    IF NotBlank(s) = {} THEN s
    ELSE SubSeq(s, FirstIn(NotBlank(s)), LastIn(NotBlank(s)))

Key(s) == trim(toLowercase(s))

\* LOWER(TRIM(email)).
DbKey(s) ==
    LET kept == {k \in DOMAIN s : s[k] # Space}
    IN  IF kept = {} THEN <<>>
        ELSE Lower(SubSeq(s, FirstIn(kept), LastIn(kept)))

\* email.size() - 2 in size_t.
MaskEnd(n) == IF n >= 2 THEN n - 2 ELSE n - 2 + SizeTMax + 1

MaskedMutant(s) == {i + 1 : i \in 2 .. Len(s) - 1}

\* Places written by the loop over i, which counts from 0.
Masked(s) == {i + 1 : i \in 2 .. MaskEnd(Len(s)) - 1}

Mask(s) == [k \in DOMAIN s |-> IF k \in Masked(s) THEN MaskChar ELSE s[k]]

\* The e-mail s is stored and keyed by a full reload; a request comes with r,
\* finds that key or not, and a task is made of it.
Lookup ==
    /\ stored = <<>>
    /\ \E s, r \in Email :
          /\ stored' = s
          /\ asked' = r
          /\ found' = (Key(r) = DbKey(s))
          /\ mName' = Mask(Key(r))

Forget ==
    /\ stored # <<>> /\ stored' = <<>>
    /\ asked' = <<>> /\ found' = FALSE /\ mName' = <<>>

EmailStep == Lookup \/ Forget

EmailSpec == EmailInit /\ [][EmailStep]_emailVars

-----------------------------------------------------------------------------
(***************************************************************************)
(* Properties.                                                             *)
(***************************************************************************)

\* The same up to blanks around it and to case, as the database sees it.
SameEmail(r, s) ==
    \E x \in Bare(r), y \in Bare(s) : Lower(x) = Lower(y)

\* A capital that LOWER changes and the server does not.
HasOtherCapital(s) == \E x \in Bare(s) : Lower(x) # toLowercase(x)

\* No tab and no line end before or after what is not blank.
OnlySpacesAround(s) ==
    \A k \in DOMAIN s : s[k] \in Blank \ {Space} =>
        \E m, n \in DOMAIN s :
            m < k /\ k < n /\ s[m] \notin Blank /\ s[n] \notin Blank

\* Two trims and two conversions of letters agree where they can: the e-mail
\* asked for is found exactly if it is the stored one up to case and blanks
\* around it and is not written with a capital outside ASCII, which toLowercase
\* leaves and the database does not. Left out are contacts stored with a tab or
\* a line end around the e-mail, which only trim takes off, and contacts that
\* consist of blanks, which trim returns as they are.
SameEmailIsFound ==
    stored # <<>> /\ NotBlank(stored) # {} /\ OnlySpacesAround(stored) =>
        (found <=> SameEmail(asked, stored) /\ ~HasOtherCapital(asked))

\* "only first two and last two character of email, other characters replaced
\* with x": the loop stays inside the name and hides what it should, also where
\* the first two and the last two overlap. It needs two characters.
MaskHidesTheMiddle ==
    LET email == Key(asked) IN
    stored # <<>> /\ Len(email) >= 2 =>
        /\ Masked(email) \subseteq DOMAIN email
        /\ \A k \in DOMAIN email :
              mName[k] = IF k <= 2 \/ k > Len(email) - 2
                         THEN email[k] ELSE MaskChar
=============================================================================

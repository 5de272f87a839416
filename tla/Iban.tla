-------------------------------- MODULE Iban --------------------------------
(***************************************************************************)
(* The arithmetic of generateAccountNumber: a French RIB key and the check *)
(* digits of ISO 13616, in numbers for the digit strings of the code, and  *)
(* the loop over digits that computes a remainder without such numbers.    *)
(***************************************************************************)
EXTENDS Integers, Sequences, SequenceTheorems, WellFoundedInduction, TLAPS

Banks == {n \in Nat : n <= 99999}
Branches == {n \in Nat : n <= 99999}
AccountParts == {n \in Nat : n <= 99999999999}

\* The sum the RIB key is computed from.
RibSum(bank, branch, account) == 89 * bank + 15 * branch + 3 * account

RibKey(bank, branch, account) == 97 - (RibSum(bank, branch, account) % 97)

\* Five digits, five, eleven and two.
Bban(bank, branch, account) ==
    bank * 1000000000000000000 + branch * 10000000000000 + account * 100
        + RibKey(bank, branch, account)

\* A turn of the loop of mod97.
Mod97Step(remainder, digit) == (remainder * 10 + digit) % 97

\* Where n turns of a loop get to from 0; turn[i][v] is what turn i makes of v.
Turns(turn, n) ==
    LET after[i \in 0..n] == IF i = 0 THEN 0 ELSE turn[i][after[i - 1]]
    IN after

\* The remainders that the loop goes through, and what mod97 returns.
Remainders(digits) ==
    Turns([i \in 1..Len(digits) |-> [r \in Nat |-> Mod97Step(r, digits[i])]], Len(digits))

Mod97(digits) == Remainders(digits)[Len(digits)]

\* What the loop is for: the number that a string of digits stands for.
Numbers(digits) ==
    Turns([i \in 1..Len(digits) |-> [v \in Nat |-> v * 10 + digits[i]]], Len(digits))

NumberOf(digits) == Numbers(digits)[Len(digits)]

\* "FR" in digits: F is 15 and R is 27.
FR == 1527

\* What an IBAN's check is computed over: the BBAN, the country, two digits.
Rearranged(bban, country, check) == bban * 1000000 + country * 100 + check

CheckDigits(bban, country) == 98 - (Rearranged(bban, country, 0) % 97)

-----------------------------------------------------------------------------

\* The loop of mod97 keeps the remainder of the digits read so far.
THEOREM Mod97StepCorrect ==
    ASSUME NEW number \in Nat, NEW digit \in 0..9
    PROVE  Mod97Step(number % 97, digit) = (number * 10 + digit) % 97
  BY DEF Mod97Step

\* Euclid's division by 97, and its remainder alone.
LEMMA Division ==
    ASSUME NEW n \in Int
    PROVE  /\ n % 97 \in 0..96 /\ n \div 97 \in Int
           /\ n = 97 * (n \div 97) + (n % 97)
  BY SMT

LEMMA Remainder ==
    ASSUME NEW k \in Int, NEW r \in 0..96
    PROVE  (97 * k + r) % 97 = r
  BY SMT

\* The key has the two digits it is padded to, and the sum it is computed from
\* is an exact JavaScript number, below 2^53.
THEOREM RibKeyFits ==
    ASSUME NEW bank \in Banks, NEW branch \in Branches, NEW account \in AccountParts
    PROVE  /\ RibKey(bank, branch, account) \in 1..97
           /\ RibSum(bank, branch, account) \in Nat
           /\ RibSum(bank, branch, account) <= 9007199254740991
  <1> DEFINE sum == RibSum(bank, branch, account)
  <1>1. bank \in Nat /\ bank <= 99999 /\ branch \in Nat /\ branch <= 99999
    BY SMT DEF Banks, Branches
  <1>2. account \in Nat /\ account <= 99999999999
    BY SMT DEF AccountParts
  <1>3. sum \in Nat /\ sum <= 9007199254740991
    BY <1>1, <1>2, SMT DEF RibSum
  <1>4. RibKey(bank, branch, account) = 97 - (sum % 97)
    BY DEF RibKey
  <1> HIDE DEF sum
  <1>5. 97 - (sum % 97) \in 1..97
    BY <1>3, Division, SMT
  <1> QED
    BY <1>3, <1>4, <1>5 DEF sum

\* A number and its distance to the next multiple of 97.
LEMMA Completed ==
    ASSUME NEW n \in Int
    PROVE  (n + (97 - (n % 97))) % 97 = 0
  <1> DEFINE r == n % 97
  <1> DEFINE d == n \div 97
  <1>1. r \in 0..96 /\ d \in Int /\ n = 97 * d + r
    BY Division
  <1> HIDE DEF r, d
  <1>2. n + (97 - r) = 97 * (d + 1) + 0 /\ d + 1 \in Int
    BY <1>1, SMT
  <1>3. (97 * (d + 1) + 0) % 97 = 0
    BY <1>2, Remainder
  <1> QED
    BY <1>2, <1>3, SMT DEF r

\* The RIB rule: bank, branch, account and key, read as one number, are a
\* multiple of 97.
THEOREM RibValid ==
    ASSUME NEW bank \in Banks, NEW branch \in Branches, NEW account \in AccountParts
    PROVE  Bban(bank, branch, account) % 97 = 0
  <1> DEFINE sum == RibSum(bank, branch, account)
  <1> DEFINE quotient == 10309278350515463 * bank + 103092783505 * branch + account
  <1>1. bank \in Int /\ branch \in Int /\ account \in Int
    BY SMT DEF Banks, Branches, AccountParts
  <1>2. sum \in Int /\ quotient \in Int
    BY <1>1, SMT DEF RibSum
  <1>3. Bban(bank, branch, account) = 97 * quotient + (sum + (97 - (sum % 97)))
    BY <1>1, SMT DEF Bban, RibKey, RibSum
  <1> HIDE DEF sum, quotient
  <1> DEFINE rest == sum + (97 - (sum % 97))
  <1>4. rest \in Int /\ rest = 97 * (rest \div 97)
    <2>1. rest \in Int
      BY <1>2, Division, SMT
    <2>2. rest % 97 = 0
      BY <1>2, Completed
    <2> HIDE DEF rest
    <2> QED BY <2>1, <2>2, Division, SMT
  <1>5. rest \div 97 \in Int
    <2> HIDE DEF rest
    <2> QED BY <1>4, Division
  <1>6. Bban(bank, branch, account) = 97 * quotient + rest
    BY <1>3
  <1> HIDE DEF rest
  <1>7. Bban(bank, branch, account) = 97 * (quotient + (rest \div 97)) + 0
    BY <1>2, <1>4, <1>5, <1>6, SMT
  <1>8. (97 * (quotient + (rest \div 97)) + 0) % 97 = 0
    BY <1>2, <1>5, Remainder, SMT
  <1> QED
    BY <1>7, <1>8

\* ISO 13616: whatever the BBAN and the country, the check digits are two, and
\* make the rearranged number 1 modulo 97.
THEOREM CheckValid ==
    ASSUME NEW bban \in Nat, NEW country \in Nat
    PROVE  /\ CheckDigits(bban, country) \in 2..98
           /\ Rearranged(bban, country, CheckDigits(bban, country)) % 97 = 1
  <1> DEFINE n == Rearranged(bban, country, 0)
  <1> DEFINE r == n % 97
  <1> DEFINE d == n \div 97
  <1>1. n \in Int
    BY SMT DEF Rearranged
  <1>2. CheckDigits(bban, country) = 98 - r
    BY DEF CheckDigits
  <1> HIDE DEF r
  <1>3. Rearranged(bban, country, 98 - r) = n + (98 - r)
    <2>1. r \in Int
      BY <1>1, Division, SMT DEF r
    <2> QED BY <2>1, SMT DEF Rearranged
  <1> HIDE DEF n, d
  <1>4. r \in 0..96 /\ d \in Int /\ n = 97 * d + r
    BY <1>1, Division DEF r, d
  <1>5. n + (98 - r) = 97 * (d + 1) + 1 /\ d + 1 \in Int
    BY <1>4, SMT
  <1>6. (97 * (d + 1) + 1) % 97 = 1
    BY <1>5, Remainder, SMT
  <1>7. 98 - r \in 2..98
    BY <1>4, SMT
  <1> QED
    BY <1>2, <1>3, <1>5, <1>6, <1>7

\* Hence every number the code generates starts with FR76.
THEOREM AlwaysFR76 ==
    ASSUME NEW bank \in Banks, NEW branch \in Branches, NEW account \in AccountParts
    PROVE  CheckDigits(Bban(bank, branch, account), FR) = 76
  <1> DEFINE bban == Bban(bank, branch, account)
  <1> DEFINE d == bban \div 97
  <1>1. bban \in Int
    BY SMT DEF Bban, RibKey, RibSum, Banks, Branches, AccountParts
  <1>2. bban % 97 = 0
    BY RibValid
  <1> HIDE DEF bban
  <1>3. d \in Int /\ bban = 97 * d
    BY <1>1, <1>2, Division, SMT
  <1> HIDE DEF d
  <1>4. Rearranged(bban, FR, 0) = 97 * (1000000 * d + 1574) + 22
    BY <1>3, SMT DEF Rearranged, FR
  <1>5. (97 * (1000000 * d + 1574) + 22) % 97 = 22
    BY <1>3, Remainder, SMT
  <1>6. CheckDigits(bban, FR) = 76
    BY <1>4, <1>5, SMT DEF CheckDigits
  <1> QED
    BY <1>6 DEF bban

-----------------------------------------------------------------------------
(***************************************************************************)
(* The loop of mod97, for strings of any length.                           *)
(***************************************************************************)

\* The least number principle, and induction over a set of numbers.
LEMMA LeastNatural ==
    ASSUME NEW T, T \subseteq Nat, T # {}
    PROVE  \E n \in T : \A m \in T : n <= m
<1> DEFINE R == OpToRel(<, Nat)
<1>1. IsWellFoundedOn(R, Nat)
  BY NatLessThanWellFounded
<1>2. \A m, n \in Nat : m < n => <<m, n>> \in R
  BY DEF OpToRel
<1> HIDE DEF R
<1>3. \E n \in T : \A m \in T : ~(<<m, n>> \in R)
  BY <1>1, WFMin
<1>4. PICK n \in T : \A m \in T : ~(<<m, n>> \in R)
  BY <1>3
<1>5. ASSUME NEW m \in T PROVE n <= m
  <2>1. ~(<<m, n>> \in R) /\ m \in Nat /\ n \in Nat
    BY <1>4
  <2>2. ~(m < n)
    BY <1>2, <2>1
  <2> QED
    BY <2>1, <2>2
<1> QED
  BY <1>5

LEMMA Induction ==
    ASSUME NEW T, 0 \in T, \A n \in Nat : n \in T => n + 1 \in T
    PROVE  \A n \in Nat : n \in T
<1> SUFFICES ASSUME Nat \ T # {} PROVE FALSE
  OBVIOUS
<1>1. PICK n \in Nat \ T : \A m \in Nat \ T : n <= m
  BY LeastNatural
<1>2. n # 0 /\ n - 1 \in Nat /\ ~(n <= n - 1) /\ (n - 1) + 1 = n
  OBVIOUS
<1>3. n - 1 \in T
  BY <1>1, <1>2
<1> QED
  BY <1>2, <1>3

\* f goes through the first n turns.
Follows(f, turn, n) ==
    /\ f \in [0..n -> Nat]
    /\ f = [i \in 0..n |-> IF i = 0 THEN 0 ELSE turn[i][f[i - 1]]]

\* Turns is defined by recursion; there is a function that satisfies it,
LEMMA SomeFollows ==
    ASSUME NEW n \in Nat, NEW turn \in [1..n -> [Nat -> Nat]]
    PROVE  \E f : Follows(f, turn, n)
<1> DEFINE T == {k \in Nat : k <= n => \E f : Follows(f, turn, k)}
<1>1. 0 \in T
  <2>1. Follows([i \in 0..0 |-> 0], turn, 0)
    BY DEF Follows
  <2> QED
    BY <2>1
<1>2. ASSUME NEW k \in Nat, k \in T
      PROVE  k + 1 \in T
  <2> SUFFICES ASSUME k + 1 <= n PROVE \E f : Follows(f, turn, k + 1)
    OBVIOUS
  <2>1. PICK f : Follows(f, turn, k)
    BY <1>2
  <2>2. PICK g : g = [i \in 0..(k + 1) |-> IF i = k + 1 THEN turn[k + 1][f[k]] ELSE f[i]]
    OBVIOUS
  <2>3. \A i \in 0..k : f[i] \in Nat
    BY <2>1 DEF Follows
  <2>4. turn[k + 1][f[k]] \in Nat
    <3>1. k + 1 \in 1..n /\ f[k] \in Nat
      BY <2>3
    <3> QED
      BY <3>1
  <2>5. g \in [0..(k + 1) -> Nat]
    <3>1. \A i \in 0..(k + 1) : i # k + 1 => i \in 0..k
      OBVIOUS
    <3> QED
      BY <2>2, <2>3, <2>4, <3>1
  <2>6. ASSUME NEW i \in 0..(k + 1)
        PROVE  g[i] = IF i = 0 THEN 0 ELSE turn[i][g[i - 1]]
    <3>1. CASE i = k + 1
      <4>1. i - 1 = k /\ k \in 0..(k + 1) /\ k # k + 1 /\ i # 0
        BY <3>1
      <4>2. g[i - 1] = f[k] /\ g[i] = turn[k + 1][f[k]]
        BY <2>2, <3>1, <4>1
      <4> QED
        BY <3>1, <4>1, <4>2
    <3>2. CASE i # k + 1
      <4>1. i \in 0..k /\ g[i] = f[i]
        BY <2>2, <3>2
      <4>2. f[i] = IF i = 0 THEN 0 ELSE turn[i][f[i - 1]]
        BY <2>1, <4>1 DEF Follows
      <4>3. i # 0 => g[i - 1] = f[i - 1]
        BY <2>2, <4>1
      <4> QED
        BY <4>1, <4>2, <4>3
    <3> QED
      BY <3>1, <3>2
  <2>7. Follows(g, turn, k + 1)
    <3>1. g = [i \in 0..(k + 1) |-> g[i]]
      BY <2>5
    <3>2. [i \in 0..(k + 1) |-> g[i]]
            = [i \in 0..(k + 1) |-> IF i = 0 THEN 0 ELSE turn[i][g[i - 1]]]
      BY <2>6
    <3>3. g = [i \in 0..(k + 1) |-> IF i = 0 THEN 0 ELSE turn[i][g[i - 1]]]
      BY <3>1, <3>2, Zenon
    <3> QED
      BY <2>5, <3>3 DEF Follows
  <2> QED
    BY <2>7
<1>3. \A k \in Nat : k \in T
  <2> HIDE DEF T
  <2> QED
    BY <1>1, <1>2, Induction
<1> QED
  BY <1>3

\* and so Turns does.
LEMMA TurnsIs ==
    ASSUME NEW n \in Nat, NEW turn \in [1..n -> [Nat -> Nat]]
    PROVE  /\ Turns(turn, n)[0] = 0
           /\ \A i \in 0..n : Turns(turn, n)[i] \in Nat
           /\ \A i \in 1..n : Turns(turn, n)[i] = turn[i][Turns(turn, n)[i - 1]]
<1> DEFINE Is(f) == f = [i \in 0..n |-> IF i = 0 THEN 0 ELSE turn[i][f[i - 1]]]
<1>1. Turns(turn, n) = CHOOSE f : Is(f)
  BY DEF Turns
<1>2. PICK f : Is(f)
  BY SomeFollows DEF Follows
<1>3. Is(Turns(turn, n))
  <2> HIDE DEF Is
  <2> QED
    BY <1>1, <1>2
<1>4. PICK g : g = Turns(turn, n)
  OBVIOUS
<1>5. /\ g[0] = 0
      /\ \A i \in 1..n : g[i] = turn[i][g[i - 1]]
  <2>1. \A i \in 0..n : g[i] = IF i = 0 THEN 0 ELSE turn[i][g[i - 1]]
    BY <1>3, <1>4
  <2>2. 0 \in 0..n /\ \A i \in 1..n : i \in 0..n /\ i # 0
    OBVIOUS
  <2> QED
    BY <2>1, <2>2
<1> DEFINE T == {k \in Nat : k <= n => g[k] \in Nat}
<1>6. 0 \in T
  BY <1>5
<1>7. ASSUME NEW k \in Nat, k \in T
      PROVE  k + 1 \in T
  <2> SUFFICES ASSUME k + 1 <= n PROVE g[k + 1] \in Nat
    OBVIOUS
  <2>1. g[k] \in Nat /\ k + 1 \in 1..n /\ (k + 1) - 1 = k
    BY <1>7
  <2>2. g[k + 1] = turn[k + 1][g[k]]
    BY <1>5, <2>1
  <2>3. turn[k + 1] \in [Nat -> Nat]
    BY <2>1
  <2> QED
    BY <2>1, <2>2, <2>3
<1>8. \A k \in Nat : k \in T
  <2> HIDE DEF T
  <2> QED
    BY <1>6, <1>7, Induction
<1> QED
  BY <1>4, <1>5, <1>8

\* The turns of both loops.
LEMMA RemaindersAre ==
    ASSUME NEW digits \in Seq(0..9)
    PROVE  /\ Remainders(digits)[0] = 0
           /\ \A i \in 0..Len(digits) : Remainders(digits)[i] \in Nat
           /\ \A i \in 1..Len(digits) :
                 Remainders(digits)[i] = Mod97Step(Remainders(digits)[i - 1], digits[i])
<1> DEFINE turn == [i \in 1..Len(digits) |-> [r \in Nat |-> Mod97Step(r, digits[i])]]
<1>1. Len(digits) \in Nat /\ \A i \in 1..Len(digits) : digits[i] \in 0..9
  BY LenProperties
<1>2. \A r \in Nat, d \in 0..9 : Mod97Step(r, d) \in Nat
  BY DEF Mod97Step
<1>3. turn \in [1..Len(digits) -> [Nat -> Nat]]
  BY <1>1, <1>2
<1>4. \A i \in 1..Len(digits), r \in Nat : turn[i][r] = Mod97Step(r, digits[i])
  OBVIOUS
<1>5. PICK g : g = Turns(turn, Len(digits))
  OBVIOUS
<1> HIDE DEF turn
<1>6. /\ g[0] = 0
      /\ \A i \in 0..Len(digits) : g[i] \in Nat
      /\ \A i \in 1..Len(digits) : g[i] = turn[i][g[i - 1]]
  BY <1>1, <1>3, <1>5, TurnsIs
<1>7. \A i \in 1..Len(digits) : g[i] = Mod97Step(g[i - 1], digits[i])
  <2>1. \A i \in 1..Len(digits) : i - 1 \in 0..Len(digits)
    BY <1>1
  <2> QED
    BY <1>4, <1>6, <2>1
<1>8. g = Remainders(digits)
  BY <1>5 DEF Remainders, turn
<1> QED
  BY <1>6, <1>7, <1>8

LEMMA NumbersAre ==
    ASSUME NEW digits \in Seq(0..9)
    PROVE  /\ Numbers(digits)[0] = 0
           /\ \A i \in 0..Len(digits) : Numbers(digits)[i] \in Nat
           /\ \A i \in 1..Len(digits) :
                 Numbers(digits)[i] = Numbers(digits)[i - 1] * 10 + digits[i]
<1> DEFINE turn == [i \in 1..Len(digits) |-> [v \in Nat |-> v * 10 + digits[i]]]
<1>1. Len(digits) \in Nat /\ \A i \in 1..Len(digits) : digits[i] \in 0..9
  BY LenProperties
<1>2. \A r \in Nat, d \in 0..9 : r * 10 + d \in Nat
  OBVIOUS
<1>3. turn \in [1..Len(digits) -> [Nat -> Nat]]
  BY <1>1, <1>2
<1>4. \A i \in 1..Len(digits), r \in Nat : turn[i][r] = r * 10 + digits[i]
  OBVIOUS
<1>5. PICK g : g = Turns(turn, Len(digits))
  OBVIOUS
<1> HIDE DEF turn
<1>6. /\ g[0] = 0
      /\ \A i \in 0..Len(digits) : g[i] \in Nat
      /\ \A i \in 1..Len(digits) : g[i] = turn[i][g[i - 1]]
  BY <1>1, <1>3, <1>5, TurnsIs
<1>7. \A i \in 1..Len(digits) : g[i] = g[i - 1] * 10 + digits[i]
  <2>1. \A i \in 1..Len(digits) : i - 1 \in 0..Len(digits)
    BY <1>1
  <2> QED
    BY <1>4, <1>6, <2>1
<1>8. g = Numbers(digits)
  BY <1>5 DEF Numbers, turn
<1> QED
  BY <1>6, <1>7, <1>8

\* mod97 returns the remainder of the number it reads, however long, and
\* multiplies nothing larger than 96.
THEOREM Mod97Correct ==
    ASSUME NEW digits \in Seq(0..9)
    PROVE  /\ Mod97(digits) = NumberOf(digits) % 97
           /\ \A i \in 0..Len(digits) : Remainders(digits)[i] \in 0..96
<1>1. Len(digits) \in Nat /\ \A i \in 1..Len(digits) : digits[i] \in 0..9
  BY LenProperties
<1>2. PICK f, g : f = Remainders(digits) /\ g = Numbers(digits)
  OBVIOUS
<1> DEFINE T == {k \in Nat : k <= Len(digits) => f[k] = g[k] % 97}
<1>3. 0 \in T
  BY <1>2, RemaindersAre, NumbersAre
<1>4. ASSUME NEW k \in Nat, k \in T
      PROVE  k + 1 \in T
  <2> SUFFICES ASSUME k + 1 <= Len(digits) PROVE f[k + 1] = g[k + 1] % 97
    OBVIOUS
  <2>1. k + 1 \in 1..Len(digits) /\ (k + 1) - 1 = k /\ k \in 0..Len(digits)
    BY <1>1
  <2>2. f[k] = g[k] % 97 /\ g[k] \in Nat
    BY <1>2, <1>4, <2>1, NumbersAre
  <2>3. /\ f[k + 1] = Mod97Step(f[k], digits[k + 1])
        /\ g[k + 1] = g[k] * 10 + digits[k + 1]
    BY <1>2, <2>1, RemaindersAre, NumbersAre
  <2> QED
    BY <1>1, <2>1, <2>2, <2>3, Mod97StepCorrect
<1>5. \A k \in Nat : k \in T
  <2> HIDE DEF T
  <2> QED
    BY <1>3, <1>4, Induction
<1>6. ASSUME NEW k \in 0..Len(digits)
      PROVE  f[k] = g[k] % 97 /\ g[k] \in Nat
  <2>1. k \in Nat /\ k <= Len(digits) /\ k \in T
    BY <1>1, <1>5
  <2>2. g[k] \in Nat
    BY <1>2, NumbersAre
  <2> QED
    BY <2>1, <2>2
<1> HIDE DEF T
<1>7. \A k \in 0..Len(digits) : f[k] \in 0..96
  <2>1. \A v \in Nat : v % 97 \in 0..96
    BY SMT
  <2> QED
    BY <1>6, <2>1
<1>8. f[Len(digits)] = g[Len(digits)] % 97
  BY <1>1, <1>6
<1> QED
  BY <1>2, <1>7, <1>8, Zenon DEF Mod97, NumberOf

\* What is read first does not depend on what comes after it.
LEMMA NumberOfPrefix ==
    ASSUME NEW s \in Seq(0..9), NEW t \in Seq(0..9), Len(s) <= Len(t),
           \A i \in 1..Len(s) : t[i] = s[i]
    PROVE  Numbers(t)[Len(s)] = NumberOf(s)
<1>1. Len(s) \in Nat /\ Len(t) \in Nat
  BY LenProperties
<1>2. PICK f, g : f = Numbers(s) /\ g = Numbers(t)
  OBVIOUS
<1> DEFINE T == {k \in Nat : k <= Len(s) => f[k] = g[k]}
<1>3. 0 \in T
  BY <1>2, NumbersAre
<1>4. ASSUME NEW k \in Nat, k \in T
      PROVE  k + 1 \in T
  <2> SUFFICES ASSUME k + 1 <= Len(s) PROVE f[k + 1] = g[k + 1]
    OBVIOUS
  <2>1. k + 1 \in 1..Len(s) /\ k + 1 \in 1..Len(t) /\ (k + 1) - 1 = k /\ k <= Len(s)
    BY <1>1
  <2>2. f[k + 1] = f[k] * 10 + s[k + 1] /\ g[k + 1] = g[k] * 10 + t[k + 1]
    BY <1>2, <2>1, NumbersAre
  <2> QED
    BY <1>4, <2>1, <2>2
<1>5. \A k \in Nat : k \in T
  <2> HIDE DEF T
  <2> QED
    BY <1>3, <1>4, Induction
<1> QED
  BY <1>1, <1>2, <1>5 DEF NumberOf

\* The check digits that the code computes from strings are those of the
\* numbers, for a BBAN of any length and a country of two letters.
THEOREM CheckComputed ==
    ASSUME NEW s \in Seq(0..9),
           NEW a \in 0..9, NEW b \in 0..9, NEW c \in 0..9, NEW d \in 0..9
    PROVE  98 - Mod97(s \o <<a, b, c, d, 0, 0>>)
             = CheckDigits(NumberOf(s), 1000 * a + 100 * b + 10 * c + d)
<1>1. PICK e \in Seq(0..9) : e = <<a, b, c, d, 0, 0>>
  <2>1. <<a, b, c, d, 0, 0>> \in Seq(0..9)
    OBVIOUS
  <2> QED
    BY <2>1, Zenon
<1>2. PICK n \in Nat : n = Len(s)
  BY LenProperties
<1>3. PICK t \in Seq(0..9) : t = s \o e
  BY <1>1, ConcatProperties
<1>4. /\ Len(t) = n + 6 /\ \A i \in 1..n : t[i] = s[i]
      /\ t[n + 1] = a /\ t[n + 2] = b /\ t[n + 3] = c /\ t[n + 4] = d
      /\ t[n + 5] = 0 /\ t[n + 6] = 0
  BY <1>1, <1>2, <1>3
<1>5. PICK g : g = Numbers(t)
  OBVIOUS
<1>6. \A i \in 1..(n + 6) : g[i] = g[i - 1] * 10 + t[i]
  BY <1>4, <1>5, NumbersAre
<1>7. g[n] = NumberOf(s) /\ g[n] \in Nat
  <2>1. n \in 0..Len(t)
    BY <1>4
  <2> QED
    BY <1>2, <1>4, <1>5, <2>1, NumberOfPrefix, NumbersAre
<1>8. /\ g[n + 1] = g[n] * 10 + a /\ g[n + 2] = g[n + 1] * 10 + b
      /\ g[n + 3] = g[n + 2] * 10 + c /\ g[n + 4] = g[n + 3] * 10 + d
      /\ g[n + 5] = g[n + 4] * 10 + 0 /\ g[n + 6] = g[n + 5] * 10 + 0
  <2>1. /\ n + 1 \in 1..(n + 6) /\ n + 2 \in 1..(n + 6) /\ n + 3 \in 1..(n + 6)
        /\ n + 4 \in 1..(n + 6) /\ n + 5 \in 1..(n + 6) /\ n + 6 \in 1..(n + 6)
        /\ (n + 1) - 1 = n /\ (n + 2) - 1 = n + 1 /\ (n + 3) - 1 = n + 2
        /\ (n + 4) - 1 = n + 3 /\ (n + 5) - 1 = n + 4 /\ (n + 6) - 1 = n + 5
    BY SMT
  <2>2. /\ g[n + 1] = g[n] * 10 + t[n + 1] /\ g[n + 2] = g[n + 1] * 10 + t[n + 2]
        /\ g[n + 3] = g[n + 2] * 10 + t[n + 3] /\ g[n + 4] = g[n + 3] * 10 + t[n + 4]
        /\ g[n + 5] = g[n + 4] * 10 + t[n + 5] /\ g[n + 6] = g[n + 5] * 10 + t[n + 6]
    BY <1>6, <2>1, SMT
  <2> QED
    BY <1>4, <2>2, SMT
<1>9. g[n + 6] = Rearranged(g[n], 1000 * a + 100 * b + 10 * c + d, 0)
  <2>1. \A v \in Nat :
           (((((v * 10 + a) * 10 + b) * 10 + c) * 10 + d) * 10 + 0) * 10 + 0
             = v * 1000000 + (1000 * a + 100 * b + 10 * c + d) * 100 + 0
    BY SMT
  <2>2. g[n + 6] = (((((g[n] * 10 + a) * 10 + b) * 10 + c) * 10 + d) * 10 + 0) * 10 + 0
    BY <1>8, SMT
  <2> DEFINE v == g[n]
  <2>3. v \in Nat
    BY <1>7, SMT
  <2>4. (((((v * 10 + a) * 10 + b) * 10 + c) * 10 + d) * 10 + 0) * 10 + 0
             = v * 1000000 + (1000 * a + 100 * b + 10 * c + d) * 100 + 0
    <3> HIDE DEF v
    <3> QED
      BY <2>1, <2>3, SMT
  <2> QED
    BY <2>2, <2>4, SMT DEF Rearranged
<1>10. Mod97(t) = g[n + 6] % 97
  BY <1>4, <1>5, Mod97Correct DEF NumberOf
<1> QED
  BY <1>1, <1>3, <1>7, <1>9, <1>10 DEF CheckDigits

=============================================================================

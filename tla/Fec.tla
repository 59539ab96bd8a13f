--------------------------------- MODULE Fec ---------------------------------
(***************************************************************************)
(* The Reed-Solomon erasure code over GF(2^8) of fec.cpp.  A byte is a     *)
(* number in 0..255, a fragment a sequence of bytes, and a vector of       *)
(* fragments some of which are missing a function on the indices present.  *)
(***************************************************************************)
EXTENDS Integers, Sequences, SequencesExt, FiniteSets

Byte == 0..255

BitSum(a, b, k) == 2^k * ((a \div 2^k + b \div 2^k) % 2)
Xor(a, b) ==
    BitSum(a, b, 0) + BitSum(a, b, 1) + BitSum(a, b, 2) + BitSum(a, b, 3) + BitSum(a, b, 4)
        + BitSum(a, b, 5) + BitSum(a, b, 6) + BitSum(a, b, 7) + BitSum(a, b, 8)

(* The exponent table of GfTables: the powers of the generator 2 modulo    *)
(* x^8 + x^4 + x^3 + x^2 + 1, which is 285 (0x11D).  It is written out, as *)
(* TLC would compute it anew at each use, and checked below.               *)
Powers == <<
    1, 2, 4, 8, 16, 32, 64, 128, 29, 58, 116, 232, 205, 135, 19, 38, 76,
    152, 45, 90, 180, 117, 234, 201, 143, 3, 6, 12, 24, 48, 96, 192, 157, 39,
    78, 156, 37, 74, 148, 53, 106, 212, 181, 119, 238, 193, 159, 35, 70, 140, 5,
    10, 20, 40, 80, 160, 93, 186, 105, 210, 185, 111, 222, 161, 95, 190, 97, 194,
    153, 47, 94, 188, 101, 202, 137, 15, 30, 60, 120, 240, 253, 231, 211, 187, 107,
    214, 177, 127, 254, 225, 223, 163, 91, 182, 113, 226, 217, 175, 67, 134, 17, 34,
    68, 136, 13, 26, 52, 104, 208, 189, 103, 206, 129, 31, 62, 124, 248, 237, 199,
    147, 59, 118, 236, 197, 151, 51, 102, 204, 133, 23, 46, 92, 184, 109, 218, 169,
    79, 158, 33, 66, 132, 21, 42, 84, 168, 77, 154, 41, 82, 164, 85, 170, 73,
    146, 57, 114, 228, 213, 183, 115, 230, 209, 191, 99, 198, 145, 63, 126, 252, 229,
    215, 179, 123, 246, 241, 255, 227, 219, 171, 75, 150, 49, 98, 196, 149, 55, 110,
    220, 165, 87, 174, 65, 130, 25, 50, 100, 200, 141, 7, 14, 28, 56, 112, 224,
    221, 167, 83, 166, 81, 162, 89, 178, 121, 242, 249, 239, 195, 155, 43, 86, 172,
    69, 138, 9, 18, 36, 72, 144, 61, 122, 244, 245, 247, 243, 251, 235, 203, 139,
    11, 22, 44, 88, 176, 125, 250, 233, 207, 131, 27, 54, 108, 216, 173, 71, 142>>

Twice(x) == IF 2 * x >= 256 THEN Xor(2 * x, 285) ELSE 2 * x

(* Powers is what the loop of the constructor computes.                    *)
ASSUME PowersAssumption ==
    /\ Len(Powers) = 255 /\ Powers[1] = 1
    /\ \A i \in 1..254 : Powers[i + 1] = Twice(Powers[i])

exp == [i \in 0..511 |-> Powers[(i % 255) + 1]]
log == [x \in 1..255 |-> CHOOSE i \in 0..254 : exp[i] = x]

gf_mul(a, b) == IF a = 0 \/ b = 0 THEN 0 ELSE exp[log[a] + log[b]]

gf_pow(a, e) ==
    IF e = 0 THEN 1 ELSE IF a = 0 THEN 0 ELSE exp[(log[a] * e) % 255]

gf_inv(a) == exp[255 - log[a]]

(* The coefficient of data fragment j in parity fragment p; j + 1 is cast  *)
(* to a byte.                                                              *)
coef(p, j) == gf_pow((j + 1) % 256, p)

Zeros(width) == [i \in 1..width |-> 0]

(* dst ^= c * src, byte by byte, as far as src reaches: a short src counts *)
(* as padded with zeros.                                                   *)
gf_mul_add(dst, src, c) ==
    LET n == Min({Len(dst), Len(src)})
    IN  [i \in 1..n |-> Xor(dst[i], gf_mul(src[i], c))] \o SubSeq(dst, n + 1, Len(dst))

Scaled(src, c) == gf_mul_add(Zeros(Len(src)), src, c)

Upto(n) == [i \in 1..n |-> i]

(* base with coef(p, j) * data[j] added for every j in J.                  *)
Combine(base, p, data, J) ==
    FoldSet(LAMBDA j, acc : gf_mul_add(acc, data[j], coef(p, j)), base, J)

(* encode_into: parity fragment p of the data fragments.                   *)
encode(data, p, width) == Combine(Zeros(width), p, data, DOMAIN data)

-----------------------------------------------------------------------------
(* One column of the Gaussian elimination: m equations a . x = syn, where  *)
(* "ok" says that every pivot so far was found.                            *)
Swap(f, r, s) == [f EXCEPT ![r] = f[s], ![s] = f[r]]

Eliminate(sys, col) ==
    LET m == Len(sys.a)
        pivots == {r \in col..m : sys.a[r][col] # 0}
        a == Swap(sys.a, Min(pivots), col)
        syn == Swap(sys.syn, Min(pivots), col)
        inv == gf_inv(a[col][col])
        row == Scaled(a[col], inv)
        value == Scaled(syn[col], inv)
    IN  IF ~sys.ok \/ pivots = {}
        THEN [sys EXCEPT !.ok = FALSE]
        ELSE [ok |-> TRUE,
              a |-> [r \in 1..m |-> IF r = col THEN row
                                    ELSE gf_mul_add(a[r], row, a[r][col])],
              syn |-> [r \in 1..m |-> IF r = col THEN value
                                      ELSE gf_mul_add(syn[r], value, a[r][col])]]

Gauss(a, syn) ==
    FoldLeft(Eliminate, [ok |-> TRUE, a |-> a, syn |-> syn], Upto(Len(a)))

(* decode: n data fragments of which DOMAIN data are present, and parity   *)
(* fragments at hand, the first of which are used.  The result has all n   *)
(* fragments, or is the data as they were if they are not recovered.       *)
decode(data, n, parity, width) ==
    LET missing == SetToSortSeq((0..(n - 1)) \ DOMAIN data, <)
        held == SetToSortSeq(DOMAIN parity, <)
        m == Len(missing)
        a == [r \in 1..m |-> [c \in 1..m |-> coef(held[r], missing[c])]]
        syn == [r \in 1..m |-> Combine([i \in 1..width |-> parity[held[r]][i]],
                                       held[r], data, DOMAIN data)]
        solved == Gauss(a, syn)
        at(i) == CHOOSE c \in 1..m : missing[c] = i
    IN  IF m = 0 \/ m > Len(held) \/ ~solved.ok
        THEN data
        ELSE [i \in 0..(n - 1) |-> IF i \in DOMAIN data THEN data[i] ELSE solved.syn[at(i)]]
=============================================================================

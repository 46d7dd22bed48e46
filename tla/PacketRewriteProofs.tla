------------------------ MODULE PacketRewriteProofs -------------------------
(***************************************************************************)
(* The invariants of PacketRewrite for words of every width, every address, *)
(* port and content.                                                       *)
(*                                                                         *)
(* One's complement arithmetic is arithmetic modulo Ones: a fold takes a   *)
(* small multiple of Ones off a sum and leaves 0 only of 0.  The lemmas    *)
(* about checksums say that with the multiple in view, which turns what a  *)
(* rewritten header adds up to into linear arithmetic.                     *)
(***************************************************************************)
EXTENDS PacketRewrite, Integers, TLAPS

-----------------------------------------------------------------------------
\* The arithmetic of checksums.

\* Ones is a number of at least 3, so that words are numbers too.
LEMMA OnesNat == Ones \in Nat /\ Ones >= 3 /\ Modulus = Ones + 1 /\ Word \subseteq Nat
  BY RewriteAssumption DEF Ones, Word

\* `as u16` gives a word, and a word is left as it is.
LEMMA AsWordIsWord ==
    ASSUME NEW x \in Nat
    PROVE  AsWord(x) \in Word /\ (x \in Word => AsWord(x) = x)
  BY RewriteAssumption DEF AsWord, Word, Ones

\* A multiple of Ones, other than 0, is what a receiver accepts.
LEMMA MultipleVerifies ==
    ASSUME NEW k \in Nat, k > 0, NEW sum \in Nat, sum = k * Ones
    PROVE  Verifies(sum)
<1>1. sum > 0
  BY OnesNat
<1>2. sum % Ones = 0
  <2> DEFINE q == sum \div Ones
             r == sum % Ones
  <2>1. q \in Int /\ r \in Nat /\ r < Ones /\ sum = Ones * q + r
    BY OnesNat
  <2> HIDE DEF q, r
  <2>2. r = Ones * (k - q) /\ k - q \in Int
    BY <2>1, OnesNat
  <2>3. r = 0
    BY <2>1, <2>2, OnesNat
  <2> QED
    BY <2>3 DEF r
<1> QED
  BY <1>1, <1>2 DEF Verifies

\* A receiver accepts nothing else.
LEMMA VerifiesMultiple ==
    ASSUME NEW sum \in Nat, Verifies(sum)
    PROVE  \E k \in Nat : k > 0 /\ sum = k * Ones
<1> DEFINE q == sum \div Ones
<1>1. q \in Int /\ sum = Ones * q + (sum % Ones)
  BY OnesNat
<1>2. sum > 0 /\ sum % Ones = 0
  BY DEF Verifies
<1> HIDE DEF q
<1>3. q > 0 /\ q \in Nat /\ sum = q * Ones
  BY <1>1, <1>2, OnesNat
<1> QED
  BY <1>3

\* The checksum that a sender's stack computes makes the words verify.
LEMMA ChecksumVerifies ==
    ASSUME NEW sum \in Nat
    PROVE  Checksum(sum) \in Word /\ Verifies(sum + Checksum(sum))
<1> DEFINE q == sum \div Ones
           r == sum % Ones
<1>1. q \in Int /\ q >= 0 /\ r \in Nat /\ r < Ones /\ sum = q * Ones + r
  BY OnesNat
<1>2. Checksum(sum) = Ones - (IF sum > 0 /\ r = 0 THEN Ones ELSE r)
  BY DEF Checksum
<1> HIDE DEF q, r
<1> DEFINE t == sum + Checksum(sum)
<1>3. Checksum(sum) \in Word /\ t \in Nat
  BY <1>1, <1>2, OnesNat DEF Word
<1>4. t = IF sum > 0 /\ r = 0 THEN sum ELSE sum + Ones - r
  BY <1>1, <1>2, OnesNat
<1> HIDE DEF t
<1>5. \E k \in Nat : k > 0 /\ t = k * Ones
  <2>1. CASE sum > 0 /\ r = 0
    <3>1. t = q * Ones /\ q > 0 /\ q \in Nat
      BY <1>1, <1>4, <2>1, OnesNat
    <3> QED
      BY <3>1
  <2>2. CASE ~(sum > 0 /\ r = 0)
    <3>1. t = q * Ones + Ones
      BY <1>1, <1>4, <2>2, OnesNat
    <3>2. t = (q + 1) * Ones /\ q + 1 \in Nat /\ q + 1 > 0
      BY <1>1, <3>1, OnesNat
    <3> QED
      BY <3>2
  <2> QED
    BY <2>1, <2>2
<1>6. Verifies(t)
  BY <1>3, <1>5, MultipleVerifies
<1> QED
  BY <1>3, <1>6 DEF t

\* One round of folding takes a multiple of Ones off a sum of up to four words, and
\* leaves at most two more than a word.
LEMMA FoldOnce ==
    ASSUME NEW x \in Nat, x <= 4 * Ones
    PROVE  /\ Fold(x) \in Nat /\ Fold(x) <= Ones + 2
           /\ x <= Ones => Fold(x) = x
           /\ x <= Ones + 2 => Fold(x) <= Ones
           /\ x > 0 => Fold(x) > 0
           /\ \E k \in 0 .. 3 : Fold(x) = x - k * Ones
<1> DEFINE q == x \div Modulus
           r == x % Modulus
<1>1. q \in Int /\ r \in Nat /\ r <= Ones /\ x = q * Modulus + r
  BY OnesNat
<1>2. Fold(x) = r + q
  BY DEF Fold
<1> HIDE DEF q, r
<1>3. q \in 0 .. 3
  BY <1>1, OnesNat
<1>4. q = 0 \/ q = 1 \/ q = 2 \/ q = 3
  BY <1>3
<1>5. Fold(x) = x - q * Ones
  BY <1>1, <1>2, <1>4, OnesNat
<1>6. CASE q = 0
  BY <1>1, <1>2, <1>3, <1>5, <1>6, OnesNat
<1>7. CASE q = 1
  BY <1>1, <1>2, <1>3, <1>5, <1>7, OnesNat
<1>8. CASE q = 2
  BY <1>1, <1>2, <1>3, <1>5, <1>8, OnesNat
<1>9. CASE q = 3
  BY <1>1, <1>2, <1>3, <1>5, <1>9, OnesNat
<1> QED
  BY <1>4, <1>6, <1>7, <1>8, <1>9

\* Two rounds make a word of a sum of up to four words.
LEMMA FoldTwice ==
    ASSUME NEW x \in Nat, x <= 4 * Ones
    PROVE  /\ Fold(Fold(x)) \in Word
           /\ x > 0 => Fold(Fold(x)) > 0
           /\ \E k \in 0 .. 6 : Fold(Fold(x)) = x - k * Ones
<1> DEFINE y == Fold(x)
           z == Fold(y)
<1>1. /\ y \in Nat /\ y <= Ones + 2 /\ (x > 0 => y > 0)
      /\ \E k \in 0 .. 3 : y = x - k * Ones
  BY FoldOnce
<1> HIDE DEF y
<1>2. /\ z \in Nat /\ z <= Ones /\ (y > 0 => z > 0)
      /\ \E k \in 0 .. 3 : z = y - k * Ones
  <2>1. y <= 4 * Ones
    BY <1>1, OnesNat
  <2> QED
    BY <1>1, <2>1, FoldOnce
<1> HIDE DEF z
<1>3. PICK i \in 0 .. 3 : y = x - i * Ones
  BY <1>1
<1>4. PICK j \in 0 .. 3 : z = y - j * Ones
  BY <1>2
<1>5. i + j \in 0 .. 6 /\ z = x - (i + j) * Ones
  BY <1>3, <1>4, OnesNat
<1>6. z \in Word /\ (x > 0 => z > 0)
  BY <1>1, <1>2, OnesNat DEF Word
<1> QED
  BY <1>5, <1>6 DEF y, z

\* csum_fold_helper gives the words of a header, without its checksum, the checksum
\* that makes them verify.
LEMMA FoldHelperVerifies ==
    ASSUME NEW x \in Nat, x <= 4 * Ones
    PROVE  csum_fold_helper(x) \in Word /\ Verifies(x + csum_fold_helper(x))
<1> DEFINE y == Fold(Fold(x))
<1>1. /\ y \in Word /\ (x > 0 => y > 0)
      /\ \E k \in 0 .. 6 : y = x - k * Ones
  BY FoldTwice
<1> HIDE DEF y
<1>2. y \in Nat /\ y <= Ones /\ y <= 4 * Ones
  BY <1>1, OnesNat DEF Word
<1>3. Fold(y) = y
  BY <1>2, FoldOnce
<1>4. csum_fold_helper(x) = Ones - y
  <2>1. csum_fold_helper(x) = Ones - AsWord(Fold(Fold(y)))
    BY DEF csum_fold_helper, y
  <2>2. AsWord(y) = y
    BY <1>1, <1>2, AsWordIsWord
  <2> QED
    BY <2>1, <2>2, <1>3
<1>5. PICK k \in 0 .. 6 : y = x - k * Ones
  BY <1>1
<1>6. x + csum_fold_helper(x) = (k + 1) * Ones /\ k + 1 \in Nat /\ k + 1 > 0
  BY <1>2, <1>4, <1>5, OnesNat
<1>7. csum_fold_helper(x) \in Word /\ x + csum_fold_helper(x) \in Nat
  BY <1>2, <1>4, OnesNat DEF Word
<1> QED
  BY <1>6, <1>7, MultipleVerifies

\* The kernel's update of a checksum for one changed word is right when the other
\* words do not add up to 0: words that verified with the old word still verify.
LEMMA ReplaceVerifies ==
    ASSUME NEW others \in Nat, others > 0,
           NEW check \in Word, NEW old \in Word, NEW new \in Word,
           Verifies(others + old + check)
    PROVE  Verifies(others + new + CsumReplace(check, old, new))
<1> DEFINE x == (Ones - check) + (Ones - old) + new
           y == Fold(Fold(x))
           s == others + new + CsumReplace(check, old, new)
<1>1. x \in Nat /\ x <= 4 * Ones
  BY OnesNat DEF Word
<1> HIDE DEF x
<1>2. y \in Word /\ \E k \in 0 .. 6 : y = x - k * Ones
  BY <1>1, FoldTwice
<1> HIDE DEF y
<1>3. CsumReplace(check, old, new) = Ones - y
  <2>1. CsumReplace(check, old, new) = Ones - AsWord(y)
    BY DEF CsumReplace, x, y
  <2> QED
    BY <2>1, <1>2, AsWordIsWord, OnesNat
<1>4. PICK k \in 0 .. 6 : y = x - k * Ones
  BY <1>2
<1>5. PICK j \in Nat : j > 0 /\ others + old + check = j * Ones
  BY VerifiesMultiple, OnesNat
<1>6. s \in Nat /\ s > 0
  BY <1>2, <1>3, OnesNat DEF Word
<1>7. s = (j + k - 1) * Ones
  <2>1. s = others + new + (Ones - y)
    BY <1>3
  <2>2. s = others + old + check + k * Ones - Ones
    BY <2>1, <1>2, <1>4, OnesNat DEF x, Word
  <2> QED
    BY <2>2, <1>5, OnesNat
<1>8. j + k - 1 \in Nat /\ j + k - 1 > 0
  BY <1>4, <1>5, <1>6, <1>7, OnesNat
<1> HIDE DEF s
<1>9. Verifies(s)
  BY <1>6, <1>7, <1>8, MultipleVerifies
<1> QED
  BY <1>9 DEF s

\* It gives a word again.
LEMMA ReplaceIsWord ==
    ASSUME NEW check \in Word, NEW old \in Word, NEW new \in Word
    PROVE  CsumReplace(check, old, new) \in Word
<1> DEFINE x == (Ones - check) + (Ones - old) + new
<1>1. x \in Nat /\ x <= 4 * Ones
  BY OnesNat DEF Word
<1>2. CsumReplace(check, old, new) = Ones - AsWord(Fold(Fold(x)))
  BY DEF CsumReplace
<1> HIDE DEF x
<1>3. AsWord(Fold(Fold(x))) \in Word
  BY <1>1, FoldTwice, AsWordIsWord, OnesNat
<1> QED
  BY <1>2, <1>3, OnesNat DEF Word

-----------------------------------------------------------------------------
\* The inductive invariant.

\* What handle_tcp_ingress and handle_udp_ingress have done to the IP header by the
\* time they reach a step.  The address may be the old one or, for UDP, already the
\* backend's until set_ipv4_ip_dst stores it; the checksum changes once.
IngressInv ==
    pc \in {"udp_dnat", "ip_l4", "ip_l3", "ip_store", "port_l4", "port_store", "redirected"} =>
        /\ pkt \in SegmentType /\ sent \in SegmentType
        /\ IpVerifies(sent) /\ sent.rest > 0
        /\ pkt.saddr = sent.saddr /\ pkt.rest = sent.rest
        /\ pkt.check = IF pc \in {"udp_dnat", "ip_l4", "ip_l3"} THEN sent.check
                        ELSE CsumReplace(sent.check, sent.daddr, mapping.daddr)
        /\ pc \in {"port_l4", "port_store", "redirected"} => pkt.daddr = mapping.daddr

\* What handle_tcp_egress and handle_icmp_egress have done.
EgressInv ==
    /\ pc \in {"tcp_snat", "replied"} => pkt \in SegmentType
    /\ pc \in {"icmp_outer", "icmp_inner", "unreachable"} =>
          /\ pkt \in UnreachableType
          /\ pc # "icmp_outer" => IpVerifies(pkt)
          /\ IpVerifies(pkt.inner)
          /\ Verifies(InnerWords(pkt.inner) + pkt.icmp)
    /\ ReplyHeaderVerifies

IInv == TypeOK /\ IngressInv /\ EgressInv

-----------------------------------------------------------------------------
\* Packets as their senders make them.

\* What an IP header's words add up to.
LEMMA IpSum ==
    ASSUME NEW ip, ip.saddr \in Word, ip.daddr \in Word, ip.rest \in Word, ip.check \in Word
    PROVE  /\ IpWords(ip) \in Nat
           /\ ip.check = 0 => IpWords(ip) <= 4 * Ones
  BY OnesNat DEF IpWords, Word

\* A header whose checksum was 0 verifies with the checksum of its words in place.
LEMMA FilledIn ==
    ASSUME NEW ip, ip.saddr \in Word, ip.daddr \in Word, ip.rest \in Word, ip.check = 0,
           NEW new, new.saddr = ip.saddr, new.daddr = ip.daddr, new.rest = ip.rest,
           new.check \in {Checksum(IpWords(ip)), csum_fold_helper(IpWords(ip))}
    PROVE  new.check \in Word /\ IpVerifies(new)
<1> DEFINE x == ip.saddr + ip.daddr + ip.rest
<1>1. x \in Nat /\ x <= 4 * Ones /\ IpWords(ip) = x
  BY OnesNat DEF IpWords, Word
<1>2. IpWords(new) = x + new.check
  BY DEF IpWords
<1> HIDE DEF x
<1>3. new.check \in Word /\ Verifies(x + new.check)
  BY <1>1, ChecksumVerifies, FoldHelperVerifies
<1> QED
  BY <1>2, <1>3 DEF IpVerifies

\* A segment or datagram leaves its sender well typed, with a header that verifies.
LEMMA SegmentSound ==
    ASSUME NEW saddr \in Word, NEW daddr \in Word, NEW sport \in Word,
           NEW dport \in Word, NEW rest \in Word, NEW data \in Word
    PROVE  /\ Segment(saddr, daddr, sport, dport, rest, data) \in SegmentType
           /\ IpVerifies(Segment(saddr, daddr, sport, dport, rest, data))
           /\ rest # 0 => Segment(saddr, daddr, sport, dport, rest, data).rest > 0
<1> DEFINE p0 == [saddr |-> saddr, daddr |-> daddr, rest |-> rest, check |-> 0,
                  sport |-> sport, dport |-> dport, data |-> data, l4 |-> 0]
           c == Checksum(IpWords(p0))
           l == Checksum(L4Words(p0))
           p == [saddr |-> saddr, daddr |-> daddr, rest |-> rest, check |-> c,
                 sport |-> sport, dport |-> dport, data |-> data, l4 |-> l]
<1>1. Segment(saddr, daddr, sport, dport, rest, data) = p
  <2>1. Segment(saddr, daddr, sport, dport, rest, data) = [WithIpCheck(p0) EXCEPT !.l4 = l]
    BY DEF Segment
  <2>2. WithIpCheck(p0) = [p0 EXCEPT !.check = c]
    BY DEF WithIpCheck
  <2> HIDE DEF c, l
  <2> DEFINE p1 == [saddr |-> saddr, daddr |-> daddr, rest |-> rest, check |-> c,
                    sport |-> sport, dport |-> dport, data |-> data, l4 |-> 0]
  <2>3. [p0 EXCEPT !.check = c] = p1
    OBVIOUS
  <2>4. [p1 EXCEPT !.l4 = l] = p
    OBVIOUS
  <2> HIDE DEF p0, p1, p
  <2> QED
    BY <2>1, <2>2, <2>3, <2>4
<1>2. L4Words(p0) \in Nat
  <2>1. L4Words(p0) = saddr + daddr + sport + dport + data
    BY DEF L4Words
  <2> QED
    BY <2>1, OnesNat
<1>3. l \in Word
  BY <1>2, ChecksumVerifies
<1>4. c \in Word /\ IpVerifies(p)
  <2> HIDE DEF l
  <2>1. /\ p0.saddr = saddr /\ p0.daddr = daddr /\ p0.rest = rest /\ p0.check = 0
        /\ p.saddr = saddr /\ p.daddr = daddr /\ p.rest = rest /\ p.check = c
    OBVIOUS
  <2> HIDE DEF p0, p
  <2> QED
    BY <2>1, FilledIn
<1>5. p \in SegmentType /\ p.rest = rest
  BY <1>3, <1>4 DEF SegmentType
<1>6. rest # 0 => p.rest > 0
  BY <1>5, OnesNat
<1> HIDE DEF p
<1> QED
  BY <1>1, <1>4, <1>5, <1>6

\* A port unreachable message leaves its sender well typed, and both headers and the
\* ICMP part verify.
LEMMA UnreachableSound ==
    ASSUME NEW from \in Word, NEW to \in Word, NEW sport \in Word,
           NEW dport \in Word, NEW rest \in Word, NEW data \in Word
    PROVE  LET p == Unreachable(from, to, sport, dport, rest, data)
           IN  /\ p \in UnreachableType /\ IpVerifies(p.inner)
               /\ Verifies(InnerWords(p.inner) + p.icmp)
<1> DEFINE i0 == [saddr |-> to, daddr |-> from, rest |-> data, check |-> 0,
                  sport |-> sport, dport |-> dport]
           ci == Checksum(IpWords(i0))
           i == [saddr |-> to, daddr |-> from, rest |-> data, check |-> ci,
                 sport |-> sport, dport |-> dport]
           m == Checksum(InnerWords(i))
           p0 == [saddr |-> from, daddr |-> to, rest |-> rest, check |-> 0,
                  inner |-> i, icmp |-> m]
           c == Checksum(IpWords(p0))
           p == [saddr |-> from, daddr |-> to, rest |-> rest, check |-> c,
                 inner |-> i, icmp |-> m]
<1>1. Unreachable(from, to, sport, dport, rest, data) = p
  BY DEF Unreachable, WithIpCheck
<1>2. ci \in Word /\ IpVerifies(i)
  <2>1. /\ i0.saddr = to /\ i0.daddr = from /\ i0.rest = data /\ i0.check = 0
        /\ i.saddr = to /\ i.daddr = from /\ i.rest = data /\ i.check = ci
    OBVIOUS
  <2> HIDE DEF i0, i
  <2> QED
    BY <2>1, FilledIn
<1>3. i \in InnerType
  BY <1>2 DEF InnerType
<1>4. InnerWords(i) \in Nat
  <2> HIDE DEF i
  <2>1. i.saddr \in Nat /\ i.daddr \in Nat /\ i.rest \in Nat /\ i.check \in Nat
    BY <1>3, OnesNat DEF InnerType
  <2>2. i.sport \in Nat /\ i.dport \in Nat
    BY <1>3, OnesNat DEF InnerType
  <2> QED
    BY <2>1, <2>2 DEF InnerWords, IpWords
<1> HIDE DEF i
<1>5. m \in Word /\ Verifies(InnerWords(i) + m)
  BY <1>4, ChecksumVerifies
<1>6. c \in Word
  <2> HIDE DEF m
  <2>1. /\ p0.saddr = from /\ p0.daddr = to /\ p0.rest = rest /\ p0.check = 0
        /\ p.saddr = from /\ p.daddr = to /\ p.rest = rest /\ p.check = c
    OBVIOUS
  <2> HIDE DEF p0, p
  <2> QED
    BY <2>1, FilledIn
<1>7. p \in UnreachableType /\ p.inner = i /\ p.icmp = m
  <2> HIDE DEF m, c
  <2> QED
    BY <1>3, <1>5, <1>6 DEF UnreachableType
<1> HIDE DEF p
<1> QED
  BY <1>1, <1>2, <1>5, <1>7

-----------------------------------------------------------------------------
\* The steps.

\* A mapping's addresses and port are words, and so is its dport `as u16`.
LEMMA MappingWords ==
    ASSUME mapping \in Mappings
    PROVE  /\ mapping.daddr \in Word /\ mapping.vip \in Word /\ mapping.vport \in Word
           /\ AsWord(mapping.dport) \in Word /\ AsWord(mapping.vport) = mapping.vport
<1>1. /\ mapping.daddr \in Word /\ mapping.vip \in Word /\ mapping.vport \in Word
      /\ mapping.dport \in Nat
  BY RewriteAssumption DEF Mappings
<1> QED
  BY <1>1, AsWordIsWord, OnesNat

\* The packets that reach the classifiers satisfy the invariant.
LEMMA InitInv == Init => IInv
<1> SUFFICES ASSUME Init PROVE IInv
  OBVIOUS
<1>1. PICK client \in Clients, port \in Ports, rest \in Contents \ {0}, data \in Contents :
          \/ /\ pc \in {"ip_l4", "udp_dnat"}
             /\ pkt = Segment(client, mapping.vip, port, mapping.vport, rest, data)
          \/ /\ pc = "tcp_snat"
             /\ pkt = Segment(mapping.daddr, client, AsWord(mapping.dport), port, rest, data)
          \/ /\ pc = "icmp_outer" /\ data # 0
             /\ pkt = Unreachable(mapping.daddr, client, port, AsWord(mapping.dport), rest, data)
  BY DEF Init
<1>2. mapping \in Mappings /\ sent = pkt
  BY DEF Init
<1>3. client \in Word /\ port \in Word /\ rest \in Word /\ rest # 0 /\ data \in Word
  BY RewriteAssumption, Zenon
<1>4. CASE /\ pc \in {"ip_l4", "udp_dnat"}
           /\ pkt = Segment(client, mapping.vip, port, mapping.vport, rest, data)
  <2>1. pkt \in SegmentType /\ IpVerifies(pkt) /\ pkt.rest > 0
    <3>1. mapping.vip \in Word /\ mapping.vport \in Word
      BY <1>2, MappingWords
    <3> QED
      BY <1>3, <1>4, <3>1, SegmentSound
  <2> QED
    BY <1>2, <1>4, <2>1 DEF IInv, TypeOK, IngressInv, EgressInv, ReplyHeaderVerifies
<1>5. CASE /\ pc = "tcp_snat"
           /\ pkt = Segment(mapping.daddr, client, AsWord(mapping.dport), port, rest, data)
  <2>1. pkt \in SegmentType
    BY <1>2, <1>3, <1>5, MappingWords, SegmentSound
  <2> QED
    BY <1>2, <1>5, <2>1 DEF IInv, TypeOK, IngressInv, EgressInv, ReplyHeaderVerifies
<1>6. CASE /\ pc = "icmp_outer"
           /\ pkt = Unreachable(mapping.daddr, client, port, AsWord(mapping.dport), rest, data)
  <2>1. /\ pkt \in UnreachableType /\ IpVerifies(pkt.inner)
        /\ Verifies(InnerWords(pkt.inner) + pkt.icmp)
    BY <1>2, <1>3, <1>6, MappingWords, UnreachableSound
  <2> QED
    BY <1>2, <1>6, <2>1 DEF IInv, TypeOK, IngressInv, EgressInv, ReplyHeaderVerifies
<1> QED
  BY <1>1, <1>4, <1>5, <1>6

\* A handler that gives up leaves a well-typed packet, of which nothing more is said.
LEMMA ReturnInv ==
    ASSUME IInv, pc' = "returned", mapping' = mapping,
           pkt' \in SegmentType \cup UnreachableType
    PROVE  IInv'
  BY DEF IInv, TypeOK, IngressInv, EgressInv, ReplyHeaderVerifies

\* An ingress step to `to` that keeps what IngressInv asks of `to` keeps the invariant.
LEMMA IngressKept ==
    ASSUME IInv, UNCHANGED <<sent, mapping>>,
           pc' \in {"ip_l4", "ip_l3", "ip_store", "port_l4", "port_store", "redirected"},
           pkt' \in SegmentType, IngressInv'
    PROVE  IInv'
  BY DEF IInv, TypeOK, EgressInv, ReplyHeaderVerifies

\* The UDP handler's own rewrite leaves the checksum for set_ipv4_ip_dst.
LEMMA UdpDnatInv ==
    ASSUME IInv, udp_dnat
    PROVE  IInv'
<1>1. /\ pkt \in SegmentType /\ sent \in SegmentType /\ IpVerifies(sent) /\ sent.rest > 0
      /\ pkt.saddr = sent.saddr /\ pkt.rest = sent.rest /\ pkt.check = sent.check
  BY DEF IInv, IngressInv, udp_dnat
<1>2. /\ pkt' = [pkt EXCEPT !.daddr = mapping.daddr, !.dport = AsWord(mapping.dport)]
      /\ pc' \in {"ip_l4", "returned"} /\ UNCHANGED <<sent, mapping>>
  BY DEF udp_dnat
<1>3. mapping.daddr \in Word /\ AsWord(mapping.dport) \in Word
  BY MappingWords DEF IInv, TypeOK
<1>4. /\ pkt' \in SegmentType /\ pkt'.saddr = pkt.saddr /\ pkt'.rest = pkt.rest
      /\ pkt'.check = pkt.check
  BY <1>1, <1>2, <1>3 DEF SegmentType
<1>5. CASE pc' = "returned"
  BY <1>2, <1>4, <1>5, ReturnInv
<1>6. CASE pc' = "ip_l4"
  <2>1. IngressInv'
    BY <1>1, <1>2, <1>4, <1>6 DEF IngressInv, IpVerifies, IpWords
  <2> QED
    BY <1>2, <1>4, <1>6, <2>1, IngressKept
<1> QED
  BY <1>2, <1>5, <1>6

\* The helper calls of set_ipv4_ip_dst, of which only the second touches the IP
\* checksum: it replaces the VIP, as it was in the packet that arrived, by the
\* backend's address, whatever the packet's address field holds by then.
LEMMA IpDstInv ==
    ASSUME IInv, set_ipv4_ip_dst
    PROVE  IInv'
<1> DEFINE old == sent.daddr
           new == mapping.daddr
<1>1. /\ pkt \in SegmentType /\ sent \in SegmentType /\ IpVerifies(sent) /\ sent.rest > 0
      /\ pkt.saddr = sent.saddr /\ pkt.rest = sent.rest
      /\ pc \in {"ip_l4", "ip_l3", "ip_store"} /\ UNCHANGED <<sent, mapping>>
  BY DEF IInv, IngressInv, set_ipv4_ip_dst, Step
<1>2. /\ new \in Word /\ old \in Word
      /\ pkt.l4 \in Word /\ pkt.check \in Word
  BY <1>1, MappingWords DEF IInv, TypeOK, SegmentType
<1>3. /\ CsumReplace(pkt.l4, old, new) \in Word
      /\ CsumReplace(pkt.check, old, new) \in Word
  BY <1>2, ReplaceIsWord
<1>4. CASE pc' = "returned" /\ pkt' = pkt
  BY <1>1, <1>4, ReturnInv
<1>5. CASE pc = "ip_l4" /\ pc' = "ip_l3" /\ pkt' = [pkt EXCEPT !.l4 = CsumReplace(@, old, new)]
  <2>1. /\ pkt' \in SegmentType /\ pkt'.saddr = pkt.saddr /\ pkt'.rest = pkt.rest
        /\ pkt'.check = pkt.check
    BY <1>1, <1>3, <1>5 DEF SegmentType
  <2>2. pkt.check = sent.check
    BY <1>5 DEF IInv, IngressInv
  <2>3. IngressInv'
    BY <1>1, <1>5, <2>1, <2>2 DEF IngressInv, IpVerifies, IpWords
  <2> QED
    BY <1>1, <1>5, <2>1, <2>3, IngressKept
<1>6. CASE /\ pc = "ip_l3" /\ pc' = "ip_store"
           /\ pkt' = [pkt EXCEPT !.check = CsumReplace(@, old, new)]
  <2>1. /\ pkt' \in SegmentType /\ pkt'.saddr = pkt.saddr /\ pkt'.rest = pkt.rest
        /\ pkt'.check = CsumReplace(pkt.check, old, new)
    BY <1>1, <1>3, <1>6 DEF SegmentType
  <2>2. pkt.check = sent.check
    BY <1>6 DEF IInv, IngressInv
  <2>3. IngressInv'
    BY <1>1, <1>6, <2>1, <2>2 DEF IngressInv, IpVerifies, IpWords
  <2> QED
    BY <1>1, <1>6, <2>1, <2>3, IngressKept
<1>7. CASE pc = "ip_store" /\ pc' = "port_l4" /\ pkt' = [pkt EXCEPT !.daddr = new]
  <2>1. /\ pkt' \in SegmentType /\ pkt'.saddr = pkt.saddr /\ pkt'.rest = pkt.rest
        /\ pkt'.check = pkt.check /\ pkt'.daddr = new
    BY <1>1, <1>2, <1>7 DEF SegmentType
  <2>2. pkt.check = CsumReplace(sent.check, sent.daddr, mapping.daddr)
    BY <1>7 DEF IInv, IngressInv
  <2>3. IngressInv'
    BY <1>1, <1>7, <2>1, <2>2 DEF IngressInv, IpVerifies, IpWords
  <2> QED
    BY <1>1, <1>7, <2>1, <2>3, IngressKept
<1> QED
  BY <1>4, <1>5, <1>6, <1>7 DEF set_ipv4_ip_dst, Step

\* set_ipv4_dest_port writes to the L4 checksum only.
LEMMA DestPortInv ==
    ASSUME IInv, set_ipv4_dest_port
    PROVE  IInv'
<1> DEFINE old == sent.dport
           new == AsWord(mapping.dport)
<1>1. /\ pkt \in SegmentType /\ sent \in SegmentType /\ IpVerifies(sent) /\ sent.rest > 0
      /\ pkt.saddr = sent.saddr /\ pkt.rest = sent.rest /\ pkt.daddr = mapping.daddr
      /\ pkt.check = CsumReplace(sent.check, sent.daddr, mapping.daddr)
      /\ pc \in {"port_l4", "port_store"} /\ UNCHANGED <<sent, mapping>>
  BY DEF IInv, IngressInv, set_ipv4_dest_port, Step
<1>2. new \in Word /\ old \in Word /\ pkt.l4 \in Word
  BY <1>1, MappingWords DEF IInv, TypeOK, SegmentType
<1>3. CsumReplace(pkt.l4, old, new) \in Word
  BY <1>2, ReplaceIsWord
<1>4. CASE pc' = "returned" /\ pkt' = pkt
  BY <1>1, <1>4, ReturnInv
<1>5. CASE /\ pc' \in {"port_store", "redirected"}
           /\ \E l4 \in Word : pkt' = [pkt EXCEPT !.l4 = l4]
  <2>1. /\ pkt' \in SegmentType /\ pkt'.saddr = pkt.saddr /\ pkt'.rest = pkt.rest
        /\ pkt'.check = pkt.check /\ pkt'.daddr = pkt.daddr
    BY <1>1, <1>5 DEF SegmentType
  <2>2. IngressInv'
    BY <1>1, <1>5, <2>1 DEF IngressInv, IpVerifies, IpWords
  <2> QED
    BY <1>1, <1>5, <2>1, <2>2, IngressKept
<1> QED
  BY <1>2, <1>3, <1>4, <1>5 DEF set_ipv4_dest_port, Step

\* handle_tcp_egress computes the IP checksum of the reply from its new words.
LEMMA TcpSnatInv ==
    ASSUME IInv, tcp_snat
    PROVE  IInv'
<1> DEFINE ip == [pkt EXCEPT !.saddr = mapping.vip, !.sport = AsWord(mapping.vport), !.check = 0]
           c == csum_fold_helper(IpWords(ip))
<1>1. /\ pkt \in SegmentType /\ mapping \in Mappings
      /\ mapping.vip \in Word /\ mapping.vport \in Word /\ AsWord(mapping.vport) = mapping.vport
  BY MappingWords DEF IInv, TypeOK, EgressInv, tcp_snat
<1>2. pc' = "replied" /\ UNCHANGED <<sent, mapping>> /\ pkt' = [ip EXCEPT !.check = c, !.l4 = 0]
  BY DEF tcp_snat
<1>3. 0 \in Word
  BY OnesNat DEF Word
<1>4. /\ ip \in SegmentType /\ ip.check = 0
      /\ ip.saddr = mapping.vip /\ ip.sport = mapping.vport
  BY <1>1, <1>3 DEF SegmentType
<1> HIDE DEF ip
<1>5. /\ pkt'.saddr = ip.saddr /\ pkt'.daddr = ip.daddr /\ pkt'.rest = ip.rest
      /\ pkt'.check = c /\ pkt'.sport = ip.sport
  <2> HIDE DEF c
  <2> QED
    BY <1>2, <1>4 DEF SegmentType
<1>6. ip.saddr \in Word /\ ip.daddr \in Word /\ ip.rest \in Word
  BY <1>4 DEF SegmentType
<1>7. c \in Word /\ IpVerifies(pkt')
  BY <1>4, <1>5, <1>6, FilledIn
<1> HIDE DEF c
<1>8. pkt' \in SegmentType
  BY <1>2, <1>3, <1>4, <1>7 DEF SegmentType
<1> QED
  BY <1>1, <1>2, <1>4, <1>5, <1>7, <1>8
    DEF IInv, TypeOK, IngressInv, EgressInv, ReplyHeaderVerifies, IpVerifies, IpWords

\* handle_icmp_egress does the same to the outer header, which the ICMP checksum does
\* not cover.
LEMMA IcmpOuterInv ==
    ASSUME IInv, icmp_outer
    PROVE  IInv'
<1> DEFINE ip == [pkt EXCEPT !.saddr = mapping.vip, !.check = 0]
           c == csum_fold_helper(IpWords(ip))
<1>1. /\ pkt \in UnreachableType /\ mapping \in Mappings /\ mapping.vip \in Word
      /\ IpVerifies(pkt.inner) /\ Verifies(InnerWords(pkt.inner) + pkt.icmp)
  BY MappingWords DEF IInv, TypeOK, EgressInv, icmp_outer
<1>2. pc' = "icmp_inner" /\ UNCHANGED <<sent, mapping>> /\ pkt' = [ip EXCEPT !.check = c]
  BY DEF icmp_outer
<1>3. 0 \in Word
  BY OnesNat DEF Word
<1>4. ip \in UnreachableType /\ ip.check = 0 /\ ip.inner = pkt.inner /\ ip.icmp = pkt.icmp
  BY <1>1, <1>3 DEF UnreachableType
<1> HIDE DEF ip
<1>5. /\ pkt'.saddr = ip.saddr /\ pkt'.daddr = ip.daddr /\ pkt'.rest = ip.rest
      /\ pkt'.check = c /\ pkt'.inner = pkt.inner /\ pkt'.icmp = pkt.icmp
  <2> HIDE DEF c
  <2> QED
    BY <1>2, <1>4 DEF UnreachableType
<1>6. ip.saddr \in Word /\ ip.daddr \in Word /\ ip.rest \in Word
  BY <1>4 DEF UnreachableType
<1>7. c \in Word /\ IpVerifies(pkt')
  BY <1>4, <1>5, <1>6, FilledIn
<1> HIDE DEF c
<1>8. pkt' \in UnreachableType
  BY <1>2, <1>4, <1>7 DEF UnreachableType
<1>9. IpVerifies(pkt'.inner) /\ Verifies(InnerWords(pkt'.inner) + pkt'.icmp)
  BY <1>1, <1>5
<1>10. IpVerifies(pkt)' /\ IpVerifies(pkt.inner)' /\ Verifies(InnerWords(pkt.inner) + pkt.icmp)'
  BY <1>7, <1>9 DEF IpVerifies, IpWords, Verifies, InnerWords
<1> QED
  BY <1>1, <1>2, <1>8, <1>10 DEF IInv, TypeOK, IngressInv, EgressInv, ReplyHeaderVerifies

\* Words that verify stay so when a part of them that verifies by itself is replaced
\* by another that does.
LEMMA SwapVerifies ==
    ASSUME NEW old \in Nat, NEW new \in Nat, NEW others \in Nat,
           Verifies(old), Verifies(new), Verifies(old + others)
    PROVE  Verifies(new + others)
<1>1. PICK i \in Nat : i > 0 /\ old = i * Ones
  BY VerifiesMultiple
<1>2. PICK j \in Nat : j > 0 /\ new = j * Ones
  BY VerifiesMultiple
<1>3. PICK k \in Nat : k > 0 /\ old + others = k * Ones
  BY VerifiesMultiple
<1>4. new + others = (k - i + j) * Ones /\ new + others > 0 /\ new + others \in Nat
  BY <1>1, <1>2, <1>3, OnesNat
<1>5. k - i + j \in Nat /\ k - i + j > 0
  BY <1>4, OnesNat
<1> QED
  BY <1>4, <1>5, MultipleVerifies

\* It then rewrites the quoted header.  The header verifies by itself before and
\* after, so the ICMP checksum over it holds as it is.
LEMMA IcmpInnerInv ==
    ASSUME IInv, icmp_inner
    PROVE  IInv'
<1> DEFINE ip == [pkt.inner EXCEPT !.daddr = mapping.vip, !.check = 0]
           c == csum_fold_helper(IpWords(ip))
           i == [ip EXCEPT !.check = c]
<1>1. /\ pkt \in UnreachableType /\ pkt.inner \in InnerType /\ pkt.icmp \in Word
      /\ mapping \in Mappings /\ mapping.vip \in Word
      /\ IpVerifies(pkt) /\ IpVerifies(pkt.inner) /\ Verifies(InnerWords(pkt.inner) + pkt.icmp)
  <2>1. pkt \in UnreachableType /\ mapping \in Mappings /\ mapping.vip \in Word
    BY MappingWords DEF IInv, TypeOK, EgressInv, icmp_inner
  <2>2. IpVerifies(pkt) /\ IpVerifies(pkt.inner) /\ Verifies(InnerWords(pkt.inner) + pkt.icmp)
    BY DEF IInv, EgressInv, icmp_inner
  <2> QED
    BY <2>1, <2>2 DEF UnreachableType
<1>2. CASE pc' = "unreachable" /\ UNCHANGED <<sent, mapping>> /\ pkt' = [pkt EXCEPT !.inner = i]
  <2>1. 0 \in Word
    BY OnesNat DEF Word
  <2>2. /\ ip \in InnerType /\ ip.check = 0
        /\ ip.sport = pkt.inner.sport /\ ip.dport = pkt.inner.dport
    BY <1>1, <2>1 DEF InnerType
  <2> HIDE DEF ip
  <2>3. /\ i.saddr = ip.saddr /\ i.daddr = ip.daddr /\ i.rest = ip.rest /\ i.check = c
        /\ i.sport = ip.sport /\ i.dport = ip.dport
    <3> HIDE DEF c
    <3> QED
      BY <2>2 DEF InnerType
  <2>4. ip.saddr \in Word /\ ip.daddr \in Word /\ ip.rest \in Word
    BY <2>2 DEF InnerType
  <2>5. c \in Word /\ IpVerifies(i)
    <3> HIDE DEF i
    <3> QED
      BY <2>2, <2>3, <2>4, FilledIn
  <2>6. i \in InnerType
    <3> HIDE DEF c
    <3> QED
      BY <2>2, <2>5 DEF InnerType
  <2> HIDE DEF i
  <2>7. IpWords(pkt.inner) \in Nat /\ IpWords(i) \in Nat
    <3>1. ASSUME NEW h \in InnerType PROVE IpWords(h) \in Nat
      <4>1. h.saddr \in Word /\ h.daddr \in Word /\ h.rest \in Word /\ h.check \in Word
        BY DEF InnerType
      <4> QED
        BY <4>1, IpSum
    <3> QED
      BY <1>1, <2>6, <3>1
  <2>8. Verifies(InnerWords(i) + pkt.icmp)
    <3> DEFINE others == pkt.inner.sport + pkt.inner.dport + pkt.icmp
    <3>1. pkt.inner.sport \in Word /\ pkt.inner.dport \in Word
      BY <1>1 DEF InnerType
    <3>2. pkt.inner.sport \in Nat /\ pkt.inner.dport \in Nat /\ pkt.icmp \in Nat
      BY <1>1, <3>1, OnesNat, Zenon
    <3>3. others \in Nat
      BY <3>2
    <3>4. InnerWords(pkt.inner) + pkt.icmp = IpWords(pkt.inner) + others
      BY <2>7, <3>2 DEF InnerWords
    <3>5. InnerWords(i) + pkt.icmp = IpWords(i) + others
      BY <2>2, <2>3, <2>7, <3>2 DEF InnerWords
    <3> HIDE DEF others
    <3> QED
      BY <1>1, <2>5, <2>7, <3>3, <3>4, <3>5, SwapVerifies DEF IpVerifies
  <2>9. /\ pkt' \in UnreachableType /\ pkt'.inner = i /\ pkt'.icmp = pkt.icmp
        /\ pkt'.saddr = pkt.saddr /\ pkt'.daddr = pkt.daddr /\ pkt'.rest = pkt.rest
        /\ pkt'.check = pkt.check
    BY <1>1, <1>2, <2>6 DEF UnreachableType
  <2>10. IpVerifies(pkt')
    BY <1>1, <2>9 DEF IpVerifies, IpWords
  <2>11. IpVerifies(pkt'.inner) /\ Verifies(InnerWords(pkt'.inner) + pkt'.icmp)
    BY <2>5, <2>8, <2>9
  <2>12. IpVerifies(pkt)' /\ IpVerifies(pkt.inner)' /\ Verifies(InnerWords(pkt.inner) + pkt.icmp)'
    BY <2>10, <2>11 DEF IpVerifies, IpWords, Verifies, InnerWords
  <2> QED
    BY <1>1, <1>2, <2>9, <2>12 DEF IInv, TypeOK, IngressInv, EgressInv, ReplyHeaderVerifies
<1>3. CASE Return
  BY <1>1, <1>3, ReturnInv DEF Return
<1> QED
  BY <1>2, <1>3 DEF icmp_inner

\* The invariant holds of every packet at every step of its handler.
LEMMA Invariance == Spec => []IInv
<1>1. ASSUME IInv, [Next]_vars PROVE IInv'
  <2>1. CASE Next
    BY <2>1, <1>1, UdpDnatInv, IpDstInv, DestPortInv, TcpSnatInv, IcmpOuterInv, IcmpInnerInv
      DEF Next
  <2>2. CASE UNCHANGED vars
    BY <2>2, <1>1 DEF vars, IInv, TypeOK, IngressInv, EgressInv, ReplyHeaderVerifies, IpVerifies,
                      IpWords, InnerWords, Verifies
  <2> QED
    BY <1>1, <2>1, <2>2
<1> QED
  BY InitInv, <1>1, PTL DEF Spec

-----------------------------------------------------------------------------
\* The theorems.

\* A redirected packet has the backend's address and an IP checksum that verifies:
\* the arriving header verified, its words other than the address are not all 0, and
\* the one update of the checksum is for the address that the packet arrived with.
THEOREM RedirectedVerifies == Spec => []RedirectedHeaderVerifies
<1>1. IInv => RedirectedHeaderVerifies
  <2> SUFFICES ASSUME IInv, pc = "redirected"
               PROVE  IpVerifies(pkt) /\ pkt.daddr = mapping.daddr
    BY DEF RedirectedHeaderVerifies
  <2> DEFINE others == sent.saddr + sent.rest
             c == CsumReplace(sent.check, sent.daddr, mapping.daddr)
  <2>1. /\ sent \in SegmentType /\ IpVerifies(sent) /\ sent.rest > 0
        /\ pkt.saddr = sent.saddr /\ pkt.rest = sent.rest
        /\ pkt.check = c /\ pkt.daddr = mapping.daddr
    BY DEF IInv, IngressInv
  <2>2. /\ sent.saddr \in Word /\ sent.rest \in Word /\ sent.check \in Word
        /\ sent.daddr \in Word /\ mapping.daddr \in Word
    BY <2>1, MappingWords DEF IInv, TypeOK, SegmentType
  <2>3. c \in Word
    BY <2>2, ReplaceIsWord
  <2> HIDE DEF c
  <2>4. /\ sent.saddr \in Nat /\ sent.rest \in Nat /\ sent.check \in Nat
        /\ sent.daddr \in Nat /\ mapping.daddr \in Nat /\ c \in Nat
    BY <2>2, <2>3, OnesNat, Zenon
  <2>5. others \in Nat /\ others > 0
    BY <2>1, <2>4
  <2>6. /\ IpWords(sent) = others + sent.daddr + sent.check
        /\ IpWords(pkt) = others + mapping.daddr + c
    BY <2>1, <2>4 DEF IpWords
  <2> HIDE DEF others
  <2>7. Verifies(others + mapping.daddr + c)
    BY <2>1, <2>2, <2>5, <2>6, ReplaceVerifies DEF IpVerifies, c
  <2> QED
    BY <2>1, <2>6, <2>7 DEF IpVerifies
<1> QED
  BY <1>1, Invariance, PTL

\* A reply leaves with the VIP as its source, address and port, and verifies.
THEOREM ReplyVerifies == Spec => []ReplyHeaderVerifies
<1>1. IInv => ReplyHeaderVerifies
  BY DEF IInv, EgressInv
<1> QED
  BY <1>1, Invariance, PTL

\* A forwarded port unreachable message verifies in all three of its checksums: the
\* two that handle_icmp_egress computes and the ICMP one, which it does not touch.
THEOREM UnreachableStillVerifies == Spec => []UnreachableVerifies
<1>1. IInv => UnreachableVerifies
  BY DEF IInv, EgressInv, UnreachableVerifies
<1> QED
  BY <1>1, Invariance, PTL

-----------------------------------------------------------------------------
\* Backends that listen on the VIP's own port.

SamePort == AsWord(mapping.dport) = mapping.vport

PortInv ==
    SamePort =>
        /\ pc \in {"udp_dnat", "ip_l4", "ip_l3", "ip_store", "port_l4", "port_store", "redirected"} =>
              pkt.dport = mapping.vport
        /\ pc \in {"icmp_outer", "icmp_inner", "unreachable"} => pkt.inner.dport = mapping.vport
        /\ pc = "unreachable" => pkt.inner.daddr = mapping.vip

\* A backend that listens on its VIP's port gets packets with its port, although
\* set_ipv4_dest_port stores the port at the offset of the checksum, and a client
\* gets messages that quote the VIP, although handle_icmp_egress does not rewrite
\* the inner port: a wrong port is seen only where the two ports differ.
THEOREM SamePortHides == Spec => [](SamePort => DestPortUpdated /\ UnreachableQuotesVip)
<1>1. Init => PortInv
  <2> SUFFICES ASSUME Init, SamePort
               PROVE  PortInv
    BY DEF PortInv
  <2>1. PICK client \in Clients, port \in Ports, rest \in Contents \ {0}, data \in Contents :
            \/ /\ pc \in {"ip_l4", "udp_dnat"}
               /\ pkt = Segment(client, mapping.vip, port, mapping.vport, rest, data)
            \/ pc = "tcp_snat"
            \/ /\ pc = "icmp_outer"
               /\ pkt = Unreachable(mapping.daddr, client, port, AsWord(mapping.dport), rest, data)
    BY DEF Init
  <2>2. Segment(client, mapping.vip, port, mapping.vport, rest, data).dport = mapping.vport
    BY DEF Segment, WithIpCheck
  <2>3. \A dport : Unreachable(mapping.daddr, client, port, dport, rest, data).inner.dport = dport
    BY DEF Unreachable, WithIpCheck
  <2> QED
    BY <2>1, <2>2, <2>3 DEF PortInv, SamePort
<1>2. IInv /\ PortInv /\ [Next]_vars => PortInv'
  <2> SUFFICES ASSUME IInv, PortInv, [Next]_vars, SamePort, UNCHANGED mapping
               PROVE  PortInv'
    BY DEF PortInv, SamePort, Next, vars, udp_dnat, set_ipv4_ip_dst, set_ipv4_dest_port, Step,
           tcp_snat, icmp_outer, icmp_inner, Return
  <2>1. CASE udp_dnat
    BY <2>1 DEF udp_dnat, IInv, IngressInv, SegmentType, PortInv, SamePort
  <2>2. CASE set_ipv4_ip_dst
    BY <2>2 DEF set_ipv4_ip_dst, Step, IInv, IngressInv, SegmentType, PortInv
  <2>3. CASE set_ipv4_dest_port
    BY <2>3 DEF set_ipv4_dest_port, Step, IInv, IngressInv, SegmentType, PortInv
  <2>4. CASE tcp_snat
    BY <2>4 DEF tcp_snat, PortInv
  <2>5. CASE icmp_outer
    BY <2>5 DEF icmp_outer, IInv, EgressInv, UnreachableType, InnerType, PortInv
  <2>6. CASE icmp_inner
    BY <2>6 DEF icmp_inner, Return, IInv, EgressInv, UnreachableType, InnerType, PortInv
  <2>7. CASE UNCHANGED vars
    BY <2>7 DEF vars, PortInv
  <2> QED
    BY <2>1, <2>2, <2>3, <2>4, <2>5, <2>6, <2>7 DEF Next
<1>3. PortInv => (SamePort => DestPortUpdated /\ UnreachableQuotesVip)
  BY DEF PortInv, SamePort, DestPortUpdated, UnreachableQuotesVip
<1> QED
  BY <1>1, <1>2, <1>3, Invariance, PTL DEF Spec
=============================================================================

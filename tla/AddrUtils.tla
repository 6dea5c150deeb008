------------------------------ MODULE AddrUtils ------------------------------
(***************************************************************************)
(* The address and string utilities of src/lib/utils.c: u16tostr,         *)
(* kr_straddr_family, kr_straddr_split, kr_straddr_join, kr_ntop_str,      *)
(* kr_straddr_subnet, kr_bitcmp, kr_inaddr_port, kr_inaddr_set_port,      *)
(* kr_sockaddr_cmp and kr_rrkey.  Each state is one call: its arguments    *)
(* (call) and what it returned or wrote (res).                            *)
(*                                                                         *)
(* A C string is a sequence of one-character strings without its NUL; a    *)
(* position p in C (0-based) is the TLA+ index p + 1.  inet_pton and       *)
(* inet_ntop belong to libc: they are given by the sets of texts they      *)
(* accept per family (V4Text, V6Text).                                     *)
(***************************************************************************)
EXTENDS Integers, Sequences, SequencesExt

CONSTANTS
    V4Text,        \* the texts inet_pton(AF_INET, ...) accepts
    V6Text,        \* the texts inet_pton(AF_INET6, ...) accepts
    AddrStrLen,    \* INET6_ADDRSTRLEN
    NULL           \* a null pointer

VARIABLES call, res

vars == <<call, res>>

NoResult == [ret |-> "none"]

Digits == <<"0", "1", "2", "3", "4", "5", "6", "7", "8", "9">>
DigitChars == Range(Digits)
DigitVal(c) == CHOOSE d \in 0..9 : Digits[d + 1] = c
Spaces == {" ", "\t"}

(* strchr(s, c): the index of the first c, 0 when there is none.          *)
StrChr(s, c) == SelectInSeq(s, LAMBDA x : x = c)

----------------------------------------------------------------------------
(* u16tostr: five digits by fixed-point multiplication.  tmp is a uint32;  *)
(* (tmp & 0x0fffffff) * 10 stays below 2^32.  It is computed on the high   *)
(* and low parts of the mantissa so that no intermediate value leaves the  *)
(* range of TLC's integers; the result is the same number.                 *)
Mul10(lo) ==
    LET a == lo \div 2^24
        b10 == (lo % 2^24) * 10
        top == a * 10 + b10 \div 2^24
    IN [hi |-> top \div 16, lo |-> (top % 16) * 2^24 + (b10 % 2^24)]

(* dst[i] = '0' + (char) (tmp >> 28): the byte 48 + the top nibble.       *)
RECURSIVE U16Digits(_, _, _)
U16Digits(hi, lo, n) ==
    IF n = 0 THEN <<>>
    ELSE LET next == Mul10(lo)
         IN <<48 + hi>> \o U16Digits(next.hi, next.lo, n - 1)

(* Mutant: the reciprocal of 10000 is truncated, without the + 1.         *)
u16tostr_trunc(num) ==
    LET tmp == num * (2^28 \div 10000) - num \div 4
    IN U16Digits(tmp \div 2^28, tmp % 2^28, 5)

u16tostr(num) ==
    LET tmp == num * ((2^28 \div 10000) + 1) - num \div 4
    IN U16Digits(tmp \div 2^28, tmp % 2^28, 5)

----------------------------------------------------------------------------
(* kr_rrkey: the cache key of an RRset, built from the class, the owner   *)
(* and the type and discriminator as five decimal digits each.  An owner  *)
(* is its wire form, a sequence of bytes ending with the zero byte.       *)

(* knot_dname_to_lower: ASCII upper case to lower case in the labels; the *)
(* length bytes (at most 63) are never letters.                            *)
DnameLower(w) == [i \in DOMAIN w |-> IF w[i] \in 65..90 THEN w[i] + 32 ELSE w[i]]

(* Mutant: the key buffer steps back two bytes after the owner.           *)
kr_rrkey_back2(class, owner, type, additional) ==
    u16tostr(class) \o SubSeq(DnameLower(owner), 1, Len(owner) - 2)
        \o u16tostr(type) \o u16tostr(additional)

(* The class digits, the lower-cased owner whose final zero byte is       *)
(* overwritten (key_buf += ret - 1) by the type digits, the discriminator *)
(* digits; the key's length is returned, a NUL follows it.                *)
kr_rrkey(class, owner, type, additional) ==
    u16tostr(class) \o Front(DnameLower(owner))
        \o u16tostr(type) \o u16tostr(additional)

----------------------------------------------------------------------------
(* Bytes written into a text buffer, as characters; a byte past '9' is     *)
(* not a digit.                                                            *)
AsText(bytes) == [k \in DOMAIN bytes |->
                     IF bytes[k] \in 48..57 THEN Digits[bytes[k] - 47] ELSE "?"]

(* strtol(s + i - 1, &end, 10): leading white space, an optional sign and  *)
(* decimal digits; with no digit the value is 0 and end is the start.      *)
(* Values stay far below LONG_MAX for the inputs checked.                  *)
RECURSIVE SkipSpaces(_, _)
SkipSpaces(s, i) == IF i <= Len(s) /\ s[i] \in Spaces THEN SkipSpaces(s, i + 1) ELSE i

RECURSIVE DigitRun(_, _, _)
DigitRun(s, i, acc) ==
    IF i <= Len(s) /\ s[i] \in DigitChars
    THEN DigitRun(s, i + 1, acc * 10 + DigitVal(s[i]))
    ELSE [val |-> acc, end |-> i]

Strtol(s, i) ==
    LET j == SkipSpaces(s, i)
        signed == j <= Len(s) /\ s[j] \in {"+", "-"}
        k == IF signed THEN j + 1 ELSE j
        d == DigitRun(s, k, 0)
    IN IF d.end = k THEN [val |-> 0, end |-> i]
       ELSE [val |-> IF signed /\ s[j] = "-" THEN -d.val ELSE d.val, end |-> d.end]

(* kr_straddr_family: AF_INET6 when the text has a colon.                  *)
kr_straddr_family(s) == IF StrChr(s, ":") # 0 THEN "INET6" ELSE "INET"

InetPton(family, s) == IF family = "INET6" THEN s \in V6Text ELSE s \in V4Text

----------------------------------------------------------------------------
(* The caller's *port before the call: kr_straddr_split writes it only     *)
(* when the text has a port.                                               *)
PortUntouched == -1

(* Mutant: a port of 0 is accepted.                                        *)
kr_straddr_split_zero(instr) ==
    LET at == StrChr(instr, "@")
        p_start == IF at # 0 THEN at ELSE StrChr(instr, "#")
        p == Strtol(instr, p_start + 1)
        portBad == p_start = Len(instr) \/ p.end <= Len(instr)
                   \/ p.val < 0 \/ p.val > 65535
        addrlen == IF p_start # 0 THEN p_start - 1 ELSE Len(instr)
    IN IF p_start # 0 /\ portBad
       THEN [ret |-> "EILSEQ", ipaddr |-> <<>>, port |-> PortUntouched]
       ELSE [ret |-> IF addrlen > AddrStrLen THEN "EILSEQ" ELSE "ok",
             ipaddr |-> IF addrlen > AddrStrLen THEN <<>>
                        ELSE SubSeq(instr, 1, addrlen),
             port |-> IF p_start # 0 THEN p.val ELSE PortUntouched]

(* kr_straddr_split: the port starts after the first '@', or else after   *)
(* the first '#'; it must be nonempty, all of it a number (strtol) in      *)
(* 1..65535, and is stored in *port; then the address before it (or the    *)
(* whole text) is copied if it has at most INET6_ADDRSTRLEN characters.   *)
kr_straddr_split(instr) ==
    LET at == StrChr(instr, "@")
        p_start == IF at # 0 THEN at ELSE StrChr(instr, "#")
        p == Strtol(instr, p_start + 1)
        portBad == p_start = Len(instr) \/ p.end <= Len(instr)
                   \/ p.val <= 0 \/ p.val > 65535
        addrlen == IF p_start # 0 THEN p_start - 1 ELSE Len(instr)
    IN IF p_start # 0 /\ portBad
       THEN [ret |-> "EILSEQ", ipaddr |-> <<>>, port |-> PortUntouched]
       ELSE [ret |-> IF addrlen > AddrStrLen THEN "EILSEQ" ELSE "ok",
             ipaddr |-> IF addrlen > AddrStrLen THEN <<>>
                        ELSE SubSeq(instr, 1, addrlen),
             port |-> IF p_start # 0 THEN p.val ELSE PortUntouched]

(* Mutant: the space check forgets the terminating NUL.                    *)
kr_straddr_join_nonul(addr, port, buflen) ==
    LET len == Len(addr) IN
    IF ~InetPton(kr_straddr_family(addr), addr)
    THEN [ret |-> "EINVAL", str |-> <<>>, buflen |-> buflen, written |-> {}]
    ELSE IF len + 6 > buflen
    THEN [ret |-> "ENOSPC", str |-> <<>>, buflen |-> buflen, written |-> {}]
    ELSE [ret |-> "ok", str |-> addr \o <<"#">> \o AsText(u16tostr(port)),
          buflen |-> len + 6, written |-> 0..len + 6]

(* kr_straddr_join: the address must parse; it is copied with its NUL,     *)
(* the NUL is replaced by '#', five digits and a NUL follow; *buflen is   *)
(* set to the length of the text.                                           *)
kr_straddr_join(addr, port, buflen) ==
    LET len == Len(addr) IN
    IF ~InetPton(kr_straddr_family(addr), addr)
    THEN [ret |-> "EINVAL", str |-> <<>>, buflen |-> buflen, written |-> {}]
    ELSE IF len + 6 >= buflen
    THEN [ret |-> "ENOSPC", str |-> <<>>, buflen |-> buflen, written |-> {}]
    ELSE [ret |-> "ok", str |-> addr \o <<"#">> \o AsText(u16tostr(port)),
          buflen |-> len + 6, written |-> 0..len + 6]

(* Mutant: the size needed does not count the NUL.                        *)
kr_ntop_str_nonul(text, port, buflen) ==
    LET len == Len(text)
        len_need == len + 1 + 5
    IN IF len + 1 > buflen
       THEN [ret |-> "ENOSPC", str |-> <<>>, buflen |-> buflen, written |-> {}]
       ELSE IF len_need > buflen
       THEN [ret |-> "ENOSPC", str |-> <<>>, buflen |-> len_need,
             written |-> 0..len]
       ELSE [ret |-> "ok", str |-> text \o <<"#">> \o AsText(u16tostr(port)),
             buflen |-> len_need, written |-> 0..len_need]

(* kr_ntop_str: inet_ntop writes the text and its NUL if they fit (else   *)
(* it fails with ENOSPC); then '#', five digits and a NUL are appended if *)
(* len + 7 bytes fit, and *buflen is set to that size either way.         *)
kr_ntop_str(text, port, buflen) ==
    LET len == Len(text)
        len_need == len + 1 + 5 + 1
    IN IF len + 1 > buflen
       THEN [ret |-> "ENOSPC", str |-> <<>>, buflen |-> buflen, written |-> {}]
       ELSE IF len_need > buflen
       THEN [ret |-> "ENOSPC", str |-> <<>>, buflen |-> len_need,
             written |-> 0..len]
       ELSE [ret |-> "ok", str |-> text \o <<"#">> \o AsText(u16tostr(port)),
             buflen |-> len_need, written |-> 0..len_need - 1]


----------------------------------------------------------------------------
(* kr_straddr_subnet: the family is that of the whole text; the text      *)
(* after the first '/' is read with strtol (no end pointer) and must lie  *)
(* in 0..32 or 0..128, else ERANGE; without '/' the length is the family's *)
(* maximum; then inet_pton parses the address into dst and only its       *)
(* failure with -1 (an unknown family, which cannot happen here) is an    *)
(* error: an address it does not accept (0) leaves dst unwritten.         *)
MaxLen(family) == IF family = "INET6" THEN 128 ELSE 32

(* Mutant: the v6 maximum is applied to every family.                     *)
kr_straddr_subnet_v6max(addr) ==
    LET family == kr_straddr_family(addr)
        slash == StrChr(addr, "/")
        addr_str == IF slash # 0 THEN SubSeq(addr, 1, slash - 1) ELSE addr
        bit_len == IF slash # 0 THEN Strtol(addr, slash + 1).val ELSE MaxLen(family)
    IN IF slash # 0 /\ (bit_len < 0 \/ bit_len > 128)
       THEN [ret |-> "ERANGE", bits |-> 0, dst |-> "untouched"]
       ELSE [ret |-> "ok", bits |-> bit_len,
             dst |-> IF InetPton(family, addr_str) THEN "written" ELSE "untouched"]

kr_straddr_subnet(addr) ==
    LET family == kr_straddr_family(addr)
        slash == StrChr(addr, "/")
        addr_str == IF slash # 0 THEN SubSeq(addr, 1, slash - 1) ELSE addr
        bit_len == IF slash # 0 THEN Strtol(addr, slash + 1).val ELSE MaxLen(family)
    IN IF slash # 0 /\ (bit_len < 0 \/ bit_len > MaxLen(family))
       THEN [ret |-> "ERANGE", bits |-> 0, dst |-> "untouched"]
       ELSE [ret |-> "ok", bits |-> bit_len,
             dst |-> IF InetPton(family, addr_str) THEN "written" ELSE "untouched"]

----------------------------------------------------------------------------
(* kr_bitcmp.  A buffer is a sequence of bytes or NULL.  Whether char is  *)
(* signed is the platform's choice (signedChar); *a >> shift then shifts  *)
(* the sign-extended value arithmetically, as the compilers do.           *)
CharVal(byte, signedChar) == IF signedChar /\ byte >= 128 THEN byte - 256 ELSE byte

(* memcmp: the sign of the first differing byte, read unsigned.           *)
MemCmp(a, b, n) ==
    LET d == {i \in 1..n : a[i] # b[i]}
        i == IF d = {} THEN 0 ELSE CHOOSE j \in d : \A k \in d : j <= k
    IN IF i = 0 THEN 0 ELSE IF a[i] < b[i] THEN -1 ELSE 1

(* Mutant: the shifted chars are subtracted without the uint8_t casts.    *)
kr_bitcmp_nocast(a, b, bits, signedChar) ==
    IF bits <= 0 \/ (a = NULL /\ b = NULL) THEN 0
    ELSE IF a = NULL THEN -1
    ELSE IF b = NULL THEN 1
    ELSE LET chunk == bits \div 8
             ret == MemCmp(a, b, chunk)
             rest == bits - chunk * 8
             shift == 8 - rest
         IN IF ret # 0 \/ rest = 0 THEN ret
            ELSE CharVal(a[chunk + 1], signedChar) \div 2^shift
                 - CharVal(b[chunk + 1], signedChar) \div 2^shift

(* NULL sorts first and bits <= 0 compares equal; the whole bytes are     *)
(* compared with memcmp, then the top bits of the next byte.              *)
kr_bitcmp(a, b, bits, signedChar) ==
    IF bits <= 0 \/ (a = NULL /\ b = NULL) THEN 0
    ELSE IF a = NULL THEN -1
    ELSE IF b = NULL THEN 1
    ELSE LET chunk == bits \div 8
             ret == MemCmp(a, b, chunk)
             rest == bits - chunk * 8
             shift == 8 - rest
         IN IF ret # 0 \/ rest = 0 THEN ret
            ELSE ((CharVal(a[chunk + 1], signedChar) \div 2^shift) % 256)
                 - ((CharVal(b[chunk + 1], signedChar) \div 2^shift) % 256)

----------------------------------------------------------------------------
(* A socket address: its family and the bytes of the structure that the   *)
(* functions read, by offset: <netinet/in.h> puts sin_port and sin6_port  *)
(* at offset 2, sin_addr at 4, sin6_flowinfo at 4 and sin6_addr at 8 (one *)
(* byte stands for each address here).                                    *)
SinPortOff == 2
Sin6PortOff == 2
AddrOff(family) == IF family = "INET6" THEN 8 ELSE 4

(* kr_inaddr_port: ntohs of the family's port field, 0 otherwise.         *)
kr_inaddr_port(sa) ==
    CASE sa.family = "INET"  -> sa.mem[SinPortOff] * 256 + sa.mem[SinPortOff + 1]
      [] sa.family = "INET6" -> sa.mem[Sin6PortOff] * 256 + sa.mem[Sin6PortOff + 1]
      [] OTHER -> 0

(* htons(port) stored at offset off: the high byte first.                 *)
StorePort(mem, off, port) ==
    [mem EXCEPT ![off] = port \div 256, ![off + 1] = port % 256]

(* Mutant: the port is stored in host (little-endian) order.              *)
kr_inaddr_set_port_nohtons(sa, port) ==
    CASE sa.family = "INET"  ->
            [sa EXCEPT !.mem = [[@ EXCEPT ![SinPortOff] = port % 256,
                                          ![SinPortOff + 1] = port \div 256]
                                 EXCEPT ![Sin6PortOff] = port % 256,
                                        ![Sin6PortOff + 1] = port \div 256]]
      [] sa.family = "INET6" ->
            [sa EXCEPT !.mem = [@ EXCEPT ![Sin6PortOff] = port % 256,
                                         ![Sin6PortOff + 1] = port \div 256]]
      [] OTHER -> sa

(* kr_inaddr_set_port: the AF_INET case has no break and falls through    *)
(* into the store to sin6_port.                                           *)
kr_inaddr_set_port(sa, port) ==
    CASE sa.family = "INET"  ->
            [sa EXCEPT !.mem = StorePort(StorePort(@, SinPortOff, port),
                                         Sin6PortOff, port)]
      [] sa.family = "INET6" -> [sa EXCEPT !.mem = StorePort(@, Sin6PortOff, port)]
      [] OTHER -> sa

PortOf(sa) == <<sa.mem[2], sa.mem[3]>>

(* Mutant: the v6 branch does not compare the ports.                      *)
kr_sockaddr_cmp_v6noport(l, r) ==
    IF l = NULL \/ r = NULL THEN "EINVAL"
    ELSE IF l.family # r.family THEN "EFAULT"
    ELSE IF l.family = "INET"
         THEN IF l.mem[4] # r.mem[4] \/ PortOf(l) # PortOf(r) THEN "EFAULT" ELSE "ok"
    ELSE IF l.family = "INET6"
         THEN IF l.mem[8] # r.mem[8] THEN "EFAULT" ELSE "ok"
    ELSE "ENOENT"

(* kr_sockaddr_cmp: 0 for the same family, address and port.             *)
kr_sockaddr_cmp(l, r) ==
    IF l = NULL \/ r = NULL THEN "EINVAL"
    ELSE IF l.family # r.family THEN "EFAULT"
    ELSE IF l.family = "INET"
         THEN IF l.mem[4] # r.mem[4] \/ PortOf(l) # PortOf(r) THEN "EFAULT" ELSE "ok"
    ELSE IF l.family = "INET6"
         THEN IF l.mem[8] # r.mem[8] \/ PortOf(l) # PortOf(r) THEN "EFAULT" ELSE "ok"
    ELSE "ENOENT"

(* kr_inaddr: the address field of an internet family, else NULL.        *)
kr_inaddr(sa) ==
    IF sa = NULL \/ sa.family \notin {"INET", "INET6"} THEN NULL
    ELSE [family |-> sa.family, byte |-> sa.mem[AddrOff(sa.family)]]

(* inet_ntop of an address field: one of the texts of its family.        *)
InetNtop(src) == CHOOSE t \in (IF src.family = "INET6" THEN V6Text ELSE V4Text) : TRUE

(* kr_ntop_str(family, src, port, buf, buflen) for a src that may be     *)
(* NULL (EINVAL).                                                          *)
NtopOf(src, port, buflen) ==
    IF src = NULL THEN [ret |-> "EINVAL", str |-> <<>>, buflen |-> buflen, written |-> {}]
    ELSE kr_ntop_str(InetNtop(src), port, buflen)

(* Mutant: the port read without ntohs (low byte first).                  *)
kr_inaddr_str_noswap(sa, buflen) ==
    IF sa = NULL THEN [ret |-> "EINVAL", str |-> <<>>, buflen |-> buflen, written |-> {}]
    ELSE NtopOf(kr_inaddr(sa), sa.mem[3] * 256 + sa.mem[2], buflen)

(* kr_inaddr_str: EINVAL for NULL, else kr_ntop_str of the family, the    *)
(* address field and the port.                                             *)
kr_inaddr_str(sa, buflen) ==
    IF sa = NULL THEN [ret |-> "EINVAL", str |-> <<>>, buflen |-> buflen, written |-> {}]
    ELSE NtopOf(kr_inaddr(sa), kr_inaddr_port(sa), buflen)


----------------------------------------------------------------------------
(* One call per behaviour: the MC's initial predicate picks call.         *)
Init == res = NoResult

Call(op, result) == call.op = op /\ res = NoResult /\ res' = result /\ UNCHANGED call

U16ToStr  == Call("u16", [ret |-> "ok", str |-> u16tostr(call.num)])
Split     == Call("split", kr_straddr_split(call.instr))
Join      == Call("join", kr_straddr_join(call.addr, call.port, call.buflen))
NtopStr   == Call("ntop", kr_ntop_str(call.text, call.port, call.buflen))
Subnet    == Call("subnet", kr_straddr_subnet(call.addr))
BitCmp    == Call("bitcmp", [ret |-> "ok",
                             cmp |-> kr_bitcmp(call.a, call.b, call.bits, call.signedChar)])
SetPort   == Call("setport", [ret |-> "ok", sa |-> kr_inaddr_set_port(call.sa, call.port),
                              port |-> kr_inaddr_port(kr_inaddr_set_port(call.sa, call.port))])
SockCmp   == Call("cmp", [ret |-> kr_sockaddr_cmp(call.l, call.r)])
(* Two keys, to compare.                                                  *)
InaddrStr == Call("inaddrstr", kr_inaddr_str(call.sa, call.buflen))
RRKey     == Call("rrkey", [ret |-> "ok",
                            keys |-> [i \in 1..2 |-> kr_rrkey(call.rr[i].class,
                                        call.rr[i].owner, call.rr[i].type, call.rr[i].add)]])

Next == U16ToStr \/ Split \/ Join \/ NtopStr \/ Subnet \/ BitCmp \/ SetPort \/ SockCmp \/ InaddrStr
        \/ RRKey

Spec == Init /\ [][Next]_vars

----------------------------------------------------------------------------
(* References.                                                            *)

(* The five decimal digits of n, with leading zeros.                      *)
Decimal5(n) == [k \in 1..5 |-> 48 + ((n \div 10^(5 - k)) % 10)]

IsDecimal(t) == t # <<>> /\ \A i \in 1..Len(t) : t[i] \in DigitChars
DecimalVal(t) == DigitRun(t, 1, 0).val

(* Bit k (1 = the most significant bit of the first byte) of s.           *)
Bit(s, k) == (s[(k - 1) \div 8 + 1] \div 2^(7 - ((k - 1) % 8))) % 2

(* The order of the first n bits of a and b, NULL before any buffer.      *)
PrefixOrder(a, b, n) ==
    IF n <= 0 \/ (a = NULL /\ b = NULL) THEN 0
    ELSE IF a = NULL THEN -1 ELSE IF b = NULL THEN 1
    ELSE LET d == {k \in 1..n : Bit(a, k) # Bit(b, k)}
             k == IF d = {} THEN 0 ELSE CHOOSE j \in d : \A i \in d : j <= i
         IN IF k = 0 THEN 0 ELSE Bit(a, k) - Bit(b, k)

Sign(x) == IF x > 0 THEN 1 ELSE IF x < 0 THEN -1 ELSE 0

Done == res # NoResult

----------------------------------------------------------------------------
(* Properties.                                                            *)

AddrOps == {"u16", "split", "join", "ntop", "subnet", "bitcmp", "setport", "cmp", "inaddrstr", "rrkey"}

TypeOK ==
    /\ call.op \in AddrOps
    /\ res.ret \in {"none", "ok", "EILSEQ", "EINVAL", "ENOSPC", "ERANGE", "EFAULT", "ENOENT"}
    /\ Done /\ call.op = "split" => res.port \in (1..65535) \cup {PortUntouched}
    /\ Done /\ call.op \in {"join", "ntop", "inaddrstr"} => res.buflen \in Nat


(* u16tostr writes the five decimal digits of every uint16 value, leading *)
(* zeros included: the fixed-point reciprocal of 10000 with its - num/4   *)
(* correction never carries a wrong digit (kr_rrkey and the address        *)
(* printers rely on it).                                                   *)
U16ToStrDecimal == Done /\ call.op = "u16" => res.str = Decimal5(call.num)

(* kr_straddr_join and kr_ntop_str write only inside the caller's buffer  *)
(* of *buflen bytes, and a text they return fits in it with its NUL.      *)
BuffersNotOverrun ==
    Done /\ call.op \in {"join", "ntop", "inaddrstr"} =>
        /\ res.written \subseteq 0..call.buflen - 1
        /\ res.ret = "ok" => Len(res.str) + 1 <= call.buflen

(* What kr_straddr_join writes, kr_straddr_split reads back: the address  *)
(* and the port, for every port the address syntax allows (1..65535); the *)
(* port 0 that join prints is rejected by split.                          *)
JoinSplitRoundTrip ==
    Done /\ call.op = "join" /\ res.ret = "ok" =>
        LET back == kr_straddr_split(res.str) IN
        IF call.port >= 1
        THEN back.ret = "ok" /\ back.ipaddr = call.addr /\ back.port = call.port
        ELSE back.ret = "EILSEQ"



SubnetAddr(addr) ==
    LET slash == StrChr(addr, "/")
    IN IF slash # 0 THEN SubSeq(addr, 1, slash - 1) ELSE addr
SubnetSuffix(addr) ==
    LET slash == StrChr(addr, "/")
    IN IF slash # 0 THEN SubSeq(addr, slash + 1, Len(addr)) ELSE <<>>

(* For a decimal prefix length, kr_straddr_subnet returns it exactly when *)
(* it is at most the maximum of the address's family (32 or 128), and     *)
(* ERANGE otherwise; without '/' it returns that maximum.                 *)
SubnetLengthChecked ==
    Done /\ call.op = "subnet"
         /\ (StrChr(call.addr, "/") = 0 \/ IsDecimal(SubnetSuffix(call.addr))) =>
        LET max == MaxLen(kr_straddr_family(SubnetAddr(call.addr)))
            suffix == SubnetSuffix(call.addr)
        IN IF suffix = <<>>
           THEN res.ret = "ok" /\ res.bits = max
           ELSE (res.ret = "ok" <=> DecimalVal(suffix) <= max)
                /\ (res.ret = "ok" => res.bits = DecimalVal(suffix))

(* kr_straddr_subnet accepts only a valid address, as its EILSEQ return  *)
(* for a failed inet_pton intends: when it returns a length, it has       *)
(* parsed the address into dst.                                            *)
SubnetAddressValid ==
    Done /\ call.op = "subnet" /\ res.ret = "ok" => res.dst = "written"


(* kr_bitcmp orders two buffers as their first bits bits, read as         *)
(* unsigned numbers, whether char is signed or not; NULL sorts first.     *)
BitcmpPrefixOrder ==
    Done /\ call.op = "bitcmp" =>
        Sign(res.cmp) = PrefixOrder(call.a, call.b, call.bits)

(* kr_inaddr_set_port stores the port so that kr_inaddr_port reads it     *)
(* back, and changes no byte outside the port field of the address's      *)
(* family: the missing break (spec, open questions) stores it twice at the *)
(* same offset.                                                            *)
SetPortRoundTrip ==
    Done /\ call.op = "setport" =>
        IF call.sa.family \in {"INET", "INET6"}
        THEN /\ res.port = call.port
             /\ \A o \in DOMAIN call.sa.mem \ {2, 3} : res.sa.mem[o] = call.sa.mem[o]
        ELSE res.sa = call.sa

(* kr_sockaddr_cmp returns 0 exactly for two internet addresses of the    *)
(* same family, address and port; the v6 flow label does not count.       *)
CmpIsEquality ==
    Done /\ call.op = "cmp" /\ call.l # NULL /\ call.r # NULL =>
        (res.ret = "ok" <=>
            /\ call.l.family = call.r.family
            /\ call.l.family \in {"INET", "INET6"}
            /\ call.l.mem[AddrOff(call.l.family)] = call.r.mem[AddrOff(call.r.family)]
            /\ PortOf(call.l) = PortOf(call.r))


(* What kr_inaddr_str prints for a socket address, kr_straddr_split reads *)
(* back: the address text and the port kr_inaddr_port reads (host order), *)
(* for every port split accepts; an address of another family is EINVAL. *)
InaddrStrRoundTrip ==
    Done /\ call.op = "inaddrstr" =>
        IF call.sa = NULL \/ call.sa.family \notin {"INET", "INET6"}
        THEN res.ret = "EINVAL"
        ELSE res.ret = "ok" /\ kr_inaddr_port(call.sa) >= 1 =>
                LET back == kr_straddr_split(res.str)
                IN back.ret = "ok" /\ back.port = kr_inaddr_port(call.sa)

(* kr_rrkey gives two RRsets the same cache key exactly when they have    *)
(* the same class, type and discriminator and owners equal but for case: *)
(* the owner's bytes, spliced between fixed-width digit fields without    *)
(* its final zero, never let two different entries share a key.           *)
RRKeyInjective ==
    Done /\ call.op = "rrkey" =>
        (res.keys[1] = res.keys[2] <=>
            /\ call.rr[1].class = call.rr[2].class
            /\ DnameLower(call.rr[1].owner) = DnameLower(call.rr[2].owner)
            /\ call.rr[1].type = call.rr[2].type
            /\ call.rr[1].add = call.rr[2].add)

============================================================================

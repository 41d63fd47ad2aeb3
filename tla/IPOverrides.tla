---------------------------- MODULE IPOverrides ----------------------------
(***************************************************************************)
(* Rate limits for ranges of IPs: how a configuration file is read and     *)
(* checked (rate_limit_config.go), and which limit an IP gets              *)
(* (rateLimitForIP in rate_limiter.go).                                    *)
(*                                                                         *)
(* An address is a host and whether an IPv4 address is written in its      *)
(* IPv4-mapped IPv6 form.  netip tells the two forms apart, in addresses   *)
(* as in prefixes.                                                         *)
(***************************************************************************)
EXTENDS Integers, Sequences

CONSTANTS
  Bad,        \* what cannot be parsed as a range ...
  Unparsable  \* ... or as an IP

-----------------------------------------------------------------------------
(* Slips the code could have made, used to test the properties.            *)

\* A single address is kept in the form it is written in, too.
AsWritten(range) == {[host |-> h, mapped |-> range.mapped] : h \in range.hosts}
-----------------------------------------------------------------------------

Unmap(addr) == [host |-> addr.host, mapped |-> FALSE]

\* parseIPPrefix: the addresses that a range stands for.  A single address is
\* unmapped, a range in CIDR notation stays in the form it is written in.
ParseIPPrefix(range) ==
  IF range.cidr THEN {[host |-> h, mapped |-> range.mapped] : h \in range.hosts}
  ELSE {Unmap([host |-> h, mapped |-> range.mapped]) : h \in range.hosts}

\* LoadIPRateLimitOverrides, Override: a file that can be decoded makes one
\* override if its rate, its burst and each of its ranges are valid.
Valid(file) ==
  /\ file.rate > 0 /\ file.burst > 0
  /\ file.ranges # <<>>
  /\ \A i \in DOMAIN file.ranges : file.ranges[i] # Bad

Override(file) ==
  [rate |-> file.rate, burst |-> file.burst,
   prefixes |-> {ParseIPPrefix(file.ranges[i]) : i \in DOMAIN file.ranges}]

\* compileIPRateLimitOverrides, newIPSet: an override that is valid has a rate,
\* a burst and a range, and none is left out here.
Compiled(override) ==
  [rate |-> override.rate, burst |-> override.burst, ips |-> UNION override.prefixes]

\* rateLimitForIP: the first override that has the address, if it is one.
RateLimitForIP(overrides, ip, default) ==
  LET hits == IF ip = Unparsable THEN {}
              ELSE {i \in DOMAIN overrides : Unmap(ip) \in Compiled(overrides[i]).ips} IN
  IF hits = {} THEN default
  ELSE LET first == CHOOSE i \in hits : \A j \in hits : i <= j IN
       [rate |-> overrides[first].rate, burst |-> overrides[first].burst]
=============================================================================

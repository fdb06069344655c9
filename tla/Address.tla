------------------------------- MODULE Address -------------------------------
(***************************************************************************)
(* libsponge/util/address.{hh,cc}: a socket address, kept as the kernel    *)
(* has it, in network byte order.  The resolver is external.               *)
(***************************************************************************)
EXTENDS NetParser

CONSTANTS SockaddrIn, \* sizeof(sockaddr_in)
          Storage     \* sizeof(sockaddr_storage)

ASSUME StorageAssumption == SockaddrIn \in Nat /\ Storage \in Nat /\ SockaddrIn < Storage

Invalid == "threw"

\* A sockaddr: for IPv4 the four bytes of the address and the two of the port.
sockaddr(family, ip, port) == [family |-> family, ip |-> ip, port |-> port]

\* Address(const sockaddr *, size).
NewAddress(addr, size_) == IF size_ > Storage THEN Invalid ELSE [_address |-> addr, _size |-> size_]

\* Address(ip, port): getaddrinfo, with the hints not to ask anybody, gives one
\* IPv4 address of that port.
resolved(ip, port) == NewAddress(sockaddr("AF_INET", ip, unparse_int(port, 2)), SockaddrIn)

\* Mutant: the bytes are taken for a number of a little-endian host.
ipv4_numeric_host(a) == assembled(Reverse(a._address.ip))

\* The number, in host byte order, of an IPv4 address.
ipv4_numeric(a) ==
  IF a._address.family # "AF_INET" \/ a._size # SockaddrIn THEN Invalid
  ELSE assembled(a._address.ip)

from_ipv4_numeric(ip_address) ==
  NewAddress(sockaddr("AF_INET", unparse_int(ip_address, 4), <<0, 0>>), SockaddrIn)

\* operator==: the sizes, then the bytes.
equal(a, b) == a._size = b._size /\ a._address = b._address
=============================================================================

\* Bytes of three values; packets of nine to 26 bytes.
SPECIFICATION PacketSpec
CONSTANTS
  BASE = 3
  Widths <- MCWidths
  Values <- MCValues
  IpAt = 2
  Sources <- MCSources
  SockaddrIn = 16
  Storage = 128
  Payloads <- MCPayloads
INVARIANTS NothingLostInViews IntactIsAccepted SumIsRight AddressSurvives ShortIsNoticed
PROPERTY ErrorIsFinal

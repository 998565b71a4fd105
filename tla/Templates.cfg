CONSTANTS
  BLOCK_SIZE = 3
  Byte <- Bits
  Xor <- BitXor
  Keys = {"k", "l"}
  block_encrypt <- Encrypt
  block_decrypt <- Decrypt
  MaxAhead = 1
  Base = 3
  MaxBytes = 2
  MaxFailed = 1
  Threads = {t1, t2}
  Limit = 2
  Shortcuts = {TRUE, FALSE}
  Customs = {TRUE, FALSE}
  MaxLen = 4
  MaxUsed = 5
  WORD_SIZE = 1
  BITS = 4
  Algorithms = {"SHA2", "MD2", "MD4", "RIPEMD160"}
  Objects = {o1, o2}
  Bytes = {0, 8}
  MaxPiece = 5
  MaxMessage = 70
SPECIFICATION MCSpec
INVARIANTS IVsAgree DecryptsWhatWasSent KeystreamSound DigestIsOfWholeMessage
PROPERTIES ImplementsBlockSource
CHECK_DEADLOCK FALSE

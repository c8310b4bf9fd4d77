SPECIFICATION Spec
CONSTANTS
  POLYNOMIAL_CRC = 225
  CRC <- computeCRC
  Payloads <- McPayloads
  NoiseBytes <- Octet
  MaxDamages = 1
  MaxLost = 6
INVARIANTS Resynchronises DamageDeceivesOnce CrcIsRemainder PointsAreCommands
PROPERTY OneChangeDetected

SPECIFICATION Spec
CONSTANTS
  Bits <- MCBits
  Ext21 = 61
PROPERTIES
  ButtonAtomic

SPECIFICATION FairSpec
CONSTANTS
  Use <- Uses
  MaxCount = 3
PROPERTIES ActsOnce ExpiresOnTime DumpSpared HungHostRestarted

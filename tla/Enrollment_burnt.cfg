SPECIFICATION Spec
CONSTANTS
    Tokens = {t1}
    NoToken = none
    Agents = {first, second}
    Provisioned <- SharedToken
    Conns = {c1, c2, c3}
    MaxRows = 1
PROPERTY
    NotBurnt

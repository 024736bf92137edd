CONSTANTS
    t1 = t1
    t2 = t2
    t3 = t3
    u1 = u1
    u2 = u2
    u3 = u3
    s1 = s1
    Contratos = {k1}
    Tenants = {t1, t2, t3}
    Eventos = {e1, e2}
    Pedidos = {p1, p2}
    StatusPedidos = {"trial"}
    MaxErros = 1
    Usuarios = {u1, u2, u3}
    Plataforma = {u2}
    Sessoes = {s1, s2, s3}
    Chamadas = {c1, c2}
    LimiteFalhas = 2
    MaxOperacoes = 2
    Nada = Nada
SPECIFICATION SpecMCJusta
\* the operations of the instance are used up
CHECK_DEADLOCK FALSE
ACTION_CONSTRAINT UmaArea
INVARIANTS ContaConfere
PROPERTIES RevogadaFica TodoEventoAcontece
